---- MODULE Spec2Model ----
(***************************************************************************)
(* Model of metro-api-client: the response normalizers, the request/       *)
(* response facade of MetroApiClient and the message handlers of its       *)
(* stream subscriptions.                                                   *)
(*                                                                         *)
(* The source tree holds two revisions of the client:                      *)
(*   src/src/client.ts     - definitions carry the source's names          *)
(*   src/unnamed/part_003  - definitions carry the suffix _p3              *)
(* Text that is the same in both revisions is modelled once.               *)
(***************************************************************************)
EXTENDS Integers, Sequences, FiniteSets, TLC

VARIABLES
    fn,        \* function under test (pure-function specifications)
    raw,       \* the decoded wire value, or the arguments, handed to it
    called,    \* whether the function has run
    ret,       \* what it returned or threw
    rev,       \* revision of the client in use: "client.ts" or "part_003"
    hpc,       \* request/response call: "idle", "requested", "responded", "settled"
    method,    \* the facade method called
    response,  \* what fetch produced for it
    outcome,   \* how the method's promise settled
    sub,       \* the stream subscription: its method and registered callbacks
    readyState,\* state of the subscription's connection
    transport, \* the connection itself: "none", "opening" or "open"
    timer,     \* whether a reconnect timer is pending
    notified,  \* the lifecycle callbacks the last connection step invoked
    op,        \* the last step of the subscription and the state it was taken in
    frame,     \* the last frame the transport delivered
    handled,   \* what the message handler did with it
    log,       \* when recording: the frames delivered so far and the callback
               \* invocations they led to, in order
    req        \* the request a method built: its options and its query

normVars == <<fn, raw, called, ret>>
httpVars == <<rev, hpc, method, response, outcome>>
connVars == <<readyState, transport, timer, notified>>
streamVars == <<sub, readyState, transport, timer, notified, op, frame, handled, log>>
queryVars == <<req>>
vars == <<fn, raw, called, ret, rev, hpc, method, response, outcome,
          sub, readyState, transport, timer, notified, op, frame, handled, log, req>>

(***************************************************************************)
(* Bounds                                                                  *)
(***************************************************************************)
\* longest list (plannedDestinations, nextPlatforms, dueTimes, extract) drawn
MaxLen == 1

(***************************************************************************)
(* JavaScript values. Every value is a record [t, v]: t is the kind, v the *)
(* payload. A key that is absent from an object is absent from DOMAIN of   *)
(* the object's payload; reading it yields Undefined.                      *)
(***************************************************************************)
Undefined == [t |-> "undefined", v |-> 0]
Null == [t |-> "null", v |-> 0]
Bool(b) == [t |-> "bool", v |-> b]
Str(s) == [t |-> "str", v |-> s]          \* a string that is no timestamp
Iso(n) == [t |-> "iso", v |-> n]          \* ISO-8601 string of instant n
Num(n) == [t |-> "num", v |-> n]          \* number (epoch milliseconds n)
DateOf(n) == [t |-> "date", v |-> n]      \* Date object, instant n
InvalidDate == [t |-> "invalid", v |-> 0] \* Date object whose time is NaN
Obj(f) == [t |-> "obj", v |-> f]
List(s) == [t |-> "list", v |-> s]

\* an object from a record of optional fields: Undefined fields are left out
Prune(f) == Obj([k \in {kk \in DOMAIN f : f[kk] # Undefined} |-> f[k]])

Nullish(x) == x.t \in {"undefined", "null"}

\* x.k for a non-nullish x
Get(x, k) == IF x.t = "obj" /\ k \in DOMAIN x.v THEN x.v[k] ELSE Undefined

\* o.k = val on an object o
Put(o, k, val) ==
    Obj([kk \in (DOMAIN o.v) \cup {k} |-> IF kk = k THEN val ELSE o.v[kk]])

\* ToBoolean
Truthy(x) ==
    CASE x.t \in {"undefined", "null"} -> FALSE
      [] x.t = "bool" -> x.v
      [] x.t = "num" -> x.v # 0
      [] x.t = "str" -> x.v # ""
      [] OTHER -> TRUE

\* new Date(x.toString()): the text of a Date holds no milliseconds
NewDate_viaText(x) ==
    CASE x.t \in {"iso", "num"} -> DateOf(x.v)
      [] x.t = "date" -> DateOf(x.v - (x.v % 1000))
      [] x.t = "null" -> DateOf(0)
      [] x.t = "bool" -> DateOf(IF x.v THEN 1 ELSE 0)
      [] OTHER -> InvalidDate

\* new Date(x)
NewDate(x) ==
    CASE x.t \in {"iso", "num", "date"} -> DateOf(x.v)
      [] x.t = "null" -> DateOf(0)
      [] x.t = "bool" -> DateOf(IF x.v THEN 1 ELSE 0)
      [] OTHER -> InvalidDate

IsDate(x) == x.t \in {"date", "invalid"}
IsInstant(x) == x.t = "date"
IsWireTime(x) == x.t \in {"iso", "num"}

\* completion of a synchronous call: a returned value or a thrown error
Ok(x) == [ok |-> TRUE, val |-> x]
Throw(name) == [ok |-> FALSE, val |-> Str(name)]
TypeError == Throw("TypeError")
SyntaxError == Throw("SyntaxError")
NotRun == [ok |-> TRUE, val |-> Undefined]

\* the per-element completions of a loop over a list / over Object.values
OverList(list) == 1..Len(list.v)
OverValues(obj) == DOMAIN obj.v

\* for (const e of list) { ... }: rs[i] is the completion of iteration i; the
\* loop stops at the first throw, otherwise every element is updated
ForEach(rs) ==
    IF \E i \in DOMAIN rs : ~rs[i].ok
    THEN rs[CHOOSE i \in DOMAIN rs : ~rs[i].ok /\ \A j \in DOMAIN rs : ~rs[j].ok => i <= j]
    ELSE Ok(List([i \in DOMAIN rs |-> rs[i].val]))

\* for (const e of Object.values(obj)) { ... }: rs[k] is the completion of
\* the iteration for key k
ForEachValue(rs) ==
    IF \E k \in DOMAIN rs : ~rs[k].ok
    THEN rs[CHOOSE k \in DOMAIN rs : ~rs[k].ok]
    ELSE Ok(Obj([k \in DOMAIN rs |-> rs[k].val]))

(***************************************************************************)
(* Statement forms the normalizers are written in                          *)
(***************************************************************************)
\* o.k = new Date(o.k)
convertField(o, k) == Put(o, k, NewDate(Get(o, k)))

\* if (o.k !== undefined) o.k = new Date(o.k)
convertIfDefined(o, k) ==
    IF Get(o, k) # Undefined THEN convertField(o, k) ELSE o

\* if (o.k !== undefined && o.k !== null) o.k = new Date(o.k)
convertIfNotNullish(o, k) ==
    IF Get(o, k) # Undefined /\ Get(o, k) # Null THEN convertField(o, k) ELSE o

\* if (o.k) o.k = new Date(o.k)
dateIfTruthy(o, k) ==
    IF Truthy(Get(o, k)) THEN convertField(o, k) ELSE o

\* o.k = <an expression that completes as r>: a throw propagates
SetField(o, k, r) == IF r.ok THEN Ok(Put(o, k, r.val)) ELSE r

(***************************************************************************)
(* Response normalizers, src/src/client.ts                                 *)
(***************************************************************************)
\* client.ts:38-40, on copy.timesAPI
convertLastEvent(timesAPI) ==
    LET lastEvent == Get(timesAPI, "lastEvent") IN
    IF ~Nullish(lastEvent) /\ Get(lastEvent, "time") # Undefined
    THEN Put(timesAPI, "lastEvent", convertField(lastEvent, "time"))
    ELSE timesAPI

\* client.ts:43-45, one iteration of the plannedDestinations loop
convertPlannedDestination(plannedDestination) ==
    LET from == Get(plannedDestination, "from") IN
    IF Nullish(from) THEN TypeError
    ELSE IF Get(from, "time") # Undefined
    THEN Ok(Put(plannedDestination, "from", convertField(from, "time")))
    ELSE Ok(plannedDestination)

\* client.ts:41-47, on copy.timesAPI
convertPlannedDestinations(timesAPI) ==
    LET list == Get(timesAPI, "plannedDestinations") IN
    IF Truthy(list)
    THEN SetField(timesAPI, "plannedDestinations",
                  ForEach([i \in OverList(list) |-> convertPlannedDestination(list.v[i])]))
    ELSE Ok(timesAPI)

\* client.ts:53-55: the test reads plannedScheduledTime, the assignment
\* converts actualPredictedTime
convertPredictedTime(time) ==
    IF Get(time, "plannedScheduledTime") # Undefined
    THEN convertField(time, "actualPredictedTime")
    ELSE time

\* client.ts:50-55, one iteration of the nextPlatforms loop
convertNextPlatform(nextPlatform) ==
    LET time == Get(nextPlatform, "time") IN
    IF Nullish(time) THEN TypeError
    ELSE Ok(Put(nextPlatform, "time",
                convertPredictedTime(convertIfDefined(time, "actualScheduledTime"))))

\* client.ts:48-57, on copy.timesAPI once the lines before have completed as r
convertNextPlatforms(r) ==
    LET list == Get(r.val, "nextPlatforms") IN
    IF ~r.ok THEN r
    ELSE IF Truthy(list)
    THEN SetField(r.val, "nextPlatforms",
                  ForEach([i \in OverList(list) |-> convertNextPlatform(list.v[i])]))
    ELSE r

\* a deserializeCollatedTrain without the early return of client.ts:36
deserializeCollatedTrain_noEarlyReturn(train) ==
    IF Nullish(Get(train, "timesAPI")) THEN TypeError
    ELSE SetField(train, "timesAPI",
                  convertNextPlatforms(
                      convertPlannedDestinations(
                          convertLastEvent(Get(train, "timesAPI")))))

\* client.ts:35-59
deserializeCollatedTrain(train) ==
    IF ~Truthy(Get(train, "timesAPI")) THEN Ok(train)
    ELSE SetField(train, "timesAPI",
                  convertNextPlatforms(
                      convertPlannedDestinations(
                          convertLastEvent(Get(train, "timesAPI")))))

\* a deserializeHistoryEntry without the test of copy.status
deserializeHistoryEntry_untested(historyEntry) ==
    LET status == Get(historyEntry, "status") IN
    SetField(convertIfDefined(historyEntry, "date"), "status",
             IF Nullish(status) THEN TypeError ELSE deserializeCollatedTrain(status))

\* client.ts:61-70
deserializeHistoryEntry(historyEntry) ==
    LET status == Get(historyEntry, "status") IN
    IF Truthy(status)
    THEN SetField(convertIfDefined(historyEntry, "date"), "status",
                  deserializeCollatedTrain(status))
    ELSE Ok(convertIfDefined(historyEntry, "date"))

\* client.ts:72-77 (the same text at part_003:81-86)
deserializeTrainHistorySummary(historySummary) ==
    Ok(convertField(convertField(historySummary, "firstEntry"), "lastEntry"))

(***************************************************************************)
(* Response normalizers, src/unnamed/part_003                              *)
(***************************************************************************)
\* part_003:54-56, one iteration of the plannedDestinations loop
convertPlannedDestination_p3(plannedDestination) ==
    LET from == Get(plannedDestination, "from") IN
    IF ~Nullish(from) /\ Get(from, "time") # Undefined
    THEN Ok(Put(plannedDestination, "from", convertField(from, "time")))
    ELSE Ok(plannedDestination)

\* part_003:52-58, on copy.timesAPI
convertPlannedDestinations_p3(timesAPI) ==
    LET list == Get(timesAPI, "plannedDestinations") IN
    IF Truthy(list)
    THEN SetField(timesAPI, "plannedDestinations",
                  ForEach([i \in OverList(list) |-> convertPlannedDestination_p3(list.v[i])]))
    ELSE Ok(timesAPI)

\* part_003:61-68, one iteration of the nextPlatforms loop
convertNextPlatform_p3(nextPlatform) ==
    LET time == Get(nextPlatform, "time") IN
    IF ~Truthy(time) THEN Ok(nextPlatform)
    ELSE Ok(Put(nextPlatform, "time",
                convertPredictedTime(convertIfNotNullish(time, "actualScheduledTime"))))

\* part_003:59-70, on copy.timesAPI once the lines before have completed as r
convertNextPlatforms_p3(r) ==
    LET list == Get(r.val, "nextPlatforms") IN
    IF ~r.ok THEN r
    ELSE IF Truthy(list)
    THEN SetField(r.val, "nextPlatforms",
                  ForEach([i \in OverList(list) |-> convertNextPlatform_p3(list.v[i])]))
    ELSE r

\* part_003:46-72
deserializeCollatedTrain_p3(train) ==
    IF ~Truthy(Get(train, "timesAPI")) THEN Ok(train)
    ELSE SetField(train, "timesAPI",
                  convertNextPlatforms_p3(
                      convertPlannedDestinations_p3(
                          convertLastEvent(Get(train, "timesAPI")))))

\* part_003:74-79
deserializeHistoryEntry_p3(historyEntry) ==
    LET status == Get(historyEntry, "status") IN
    IF Truthy(status)
    THEN SetField(convertIfDefined(historyEntry, "date"), "status",
                  deserializeCollatedTrain_p3(status))
    ELSE Ok(convertIfDefined(historyEntry, "date"))

\* part_003:91-98: the times of one due entry
convertDueTimeTime(dueTime) ==
    LET time == Get(dueTime, "time") IN
    IF Truthy(time)
    THEN Put(dueTime, "time",
             convertIfDefined(convertIfNotNullish(time, "actualScheduledTime"),
                              "actualPredictedTime"))
    ELSE dueTime

\* part_003:91-99, one iteration of the dueTimes loop
convertDueTime(dueTime) ==
    LET status == Get(dueTime, "status") IN
    IF Truthy(status)
    THEN SetField(convertDueTimeTime(dueTime), "status",
                  deserializeCollatedTrain_p3(status))
    ELSE Ok(convertDueTimeTime(dueTime))

\* part_003:88-102; for...of needs an iterable: a plain object is none
deserializeDueTimes(dueTimes) ==
    IF dueTimes.t # "list" THEN TypeError
    ELSE ForEach([i \in OverList(dueTimes) |-> convertDueTime(dueTimes.v[i])])

(***************************************************************************)
(* Wire values the normalizers are run on. A response filtered by `props`  *)
(* lacks the keys that were not asked for, so every key is optional.       *)
(***************************************************************************)
BadTime == Str("not-a-date")

SeqsUpTo(S, n) == UNION {[1..k -> S] : k \in 0..n}

\* a DueTime record as found under nextPlatforms[i].time
NextPlatformTimes ==
    {Prune([dueIn |-> Num(3), actualScheduledTime |-> a,
            actualPredictedTime |-> p, plannedScheduledTime |-> q]) :
        a \in {Undefined, Null, Iso(1), BadTime},
        p \in {Undefined, Iso(2)},
        q \in {Undefined, Iso(1)}}

NextPlatformElems ==
    {Prune([code |-> Str("MTW;4"), time |-> tm]) :
        tm \in {Undefined} \cup NextPlatformTimes}

PlannedDestinationElems ==
    {Prune([name |-> Str("Airport"), from |-> f]) :
        f \in {Undefined} \cup
              {Prune([platformCode |-> Str("MTW;4"), time |-> x]) :
                  x \in {Undefined, Iso(1), BadTime}}}

LastEvents ==
    {Prune([type |-> Str("ARRIVED"), time |-> x]) :
        x \in {Undefined, Iso(1), Num(2), BadTime}}

TimesAPIs ==
    {Prune([lastEvent |-> le, plannedDestinations |-> pd, nextPlatforms |-> np]) :
        le \in {Undefined} \cup LastEvents,
        pd \in {Undefined} \cup {List(q) : q \in SeqsUpTo(PlannedDestinationElems, MaxLen)},
        np \in {Undefined} \cup {List(q) : q \in SeqsUpTo(NextPlatformElems, MaxLen)}}

TrainStatusesAPIData ==
    Obj([destination |-> Str("Airport"),
         lastSeen |-> Str("Arrived Monument platform 3 at 12:34")])

CollatedInputs ==
    {Prune([timesAPI |-> ta, trainStatusesAPI |-> ts]) :
        ta \in {Undefined} \cup TimesAPIs,
        ts \in {Undefined, TrainStatusesAPIData}}

\* a few collated statuses, for the records that nest one
StatusSamples ==
    { Obj([trainStatusesAPI |-> TrainStatusesAPIData]),
      Obj([timesAPI |-> Obj([lastEvent |-> Obj([time |-> Iso(1)])]),
           trainStatusesAPI |-> TrainStatusesAPIData]),
      Obj([timesAPI |-> Obj([lastEvent |-> Obj([time |-> BadTime])])]),
      Obj([timesAPI |-> Obj([plannedDestinations |->
              List(<<Obj([name |-> Str("Airport")])>>)])]),
      Obj([timesAPI |-> Obj([nextPlatforms |->
              List(<<Obj([code |-> Str("MTW;4")])>>)])]),
      Obj([timesAPI |-> Obj([nextPlatforms |->
              List(<<Obj([code |-> Str("MTW;4"),
                          time |-> Obj([dueIn |-> Num(3),
                                        actualScheduledTime |-> Null,
                                        actualPredictedTime |-> Iso(2)])])>>)])]) }

HistoryEntryInputs ==
    {Prune([active |-> a, date |-> d, status |-> st]) :
        a \in {Undefined, Bool(TRUE), Bool(FALSE)},
        d \in {Undefined, Iso(1), Num(2), BadTime},
        st \in {Undefined} \cup StatusSamples}

HistorySummaryInputs ==
    {Prune([numEntries |-> n, firstEntry |-> a, lastEntry |-> b]) :
        n \in {Undefined, Num(5)},
        a \in {Undefined, Iso(1), Num(2), BadTime},
        b \in {Undefined, Iso(2), BadTime}}

DueTimeElems ==
    {Prune([trn |-> Str("101"), time |-> tm, status |-> st]) :
        tm \in {Undefined} \cup
               {Prune([dueIn |-> Num(3), actualScheduledTime |-> a,
                       actualPredictedTime |-> p]) :
                   a \in {Undefined, Null, Iso(1)},
                   p \in {Undefined, Iso(2), BadTime}},
        st \in {Undefined} \cup StatusSamples}

\* the list of /due-times/station and /due-times/platform
DueTimesLists == {List(q) : q \in SeqsUpTo(DueTimeElems, MaxLen)}

\* the map platform code -> list of /due-times (types.ts:295-300)
DueTimesMaps ==
    {Obj(<<>>)} \cup {Obj([k \in {"MTW;4"} |-> l]) : l \in DueTimesLists}

NormFns ==
    {"deserializeCollatedTrain", "deserializeCollatedTrain_p3",
     "deserializeHistoryEntry", "deserializeHistoryEntry_p3",
     "deserializeTrainHistorySummary", "deserializeDueTimes"}

InputsOf(f) ==
    CASE f \in {"deserializeCollatedTrain", "deserializeCollatedTrain_p3"} -> CollatedInputs
      [] f \in {"deserializeHistoryEntry", "deserializeHistoryEntry_p3"} -> HistoryEntryInputs
      [] f = "deserializeTrainHistorySummary" -> HistorySummaryInputs
      [] f = "deserializeDueTimes" -> DueTimesLists \cup DueTimesMaps

(***************************************************************************)
(* Specification of the normalizers: Init draws the normalizer and its     *)
(* input, one action applies it.                                           *)
(***************************************************************************)
NoResponse == [arrived |-> FALSE, status |-> 0, json |-> FALSE, body |-> Undefined]
Pending == [state |-> "pending", val |-> Undefined]

NoSubscription == [method |-> "none", callbacks |-> {}]
NoFrame == [event |-> "", json |-> FALSE, body |-> Undefined]
Silent == [calls |-> <<>>, warns |-> 0, threw |-> "none"]
NoOp == [name |-> "none", from |-> "disconnected"]
NoLog == [recording |-> FALSE, arrived |-> <<>>, invoked |-> <<>>]
NoRequest == [method |-> "none", opts |-> Undefined, callbacks |-> {}, query |-> <<>>]

StreamIdle ==
    /\ sub = NoSubscription
    /\ readyState = "disconnected"
    /\ transport = "none"
    /\ timer = FALSE
    /\ notified = <<>>
    /\ op = NoOp
    /\ frame = NoFrame
    /\ handled = Silent
    /\ log = NoLog

HttpIdle ==
    /\ rev = "client.ts"
    /\ hpc = "idle"
    /\ method = "none"
    /\ response = NoResponse
    /\ outcome = Pending

QueryIdle == req = NoRequest

NormIdle == fn = "none" /\ raw = Undefined /\ called = FALSE /\ ret = NotRun

InitNorm ==
    /\ fn \in NormFns
    /\ raw \in InputsOf(fn)
    /\ called = FALSE
    /\ ret = NotRun
    /\ HttpIdle
    /\ StreamIdle
    /\ QueryIdle

(***************************************************************************)
(* The normalizers in memory. An object is a cell of the memory; a         *)
(* reference names a cell and a path of keys and indices inside it. The    *)
(* statements of a normalizer read and write through references, so where  *)
(* a write lands depends on what the reference it is made through names.   *)
(* A run is the memory it leaves and its completion.                       *)
(***************************************************************************)
RECURSIVE ReadAt(_, _)
\* the value at path inside value
ReadAt(value, path) ==
    IF Len(path) = 0 THEN value
    ELSE IF value.t = "list" THEN ReadAt(value.v[Head(path)], Tail(path))
    ELSE ReadAt(Get(value, Head(path)), Tail(path))

RECURSIVE WriteAt(_, _, _)
\* value with new written at path
WriteAt(value, path, new) ==
    IF Len(path) = 0 THEN new
    ELSE IF value.t = "list"
    THEN List([value.v EXCEPT ![Head(path)] = WriteAt(@, Tail(path), new)])
    ELSE Put(value, Head(path), WriteAt(Get(value, Head(path)), Tail(path), new))

\* the memory when a function is called on argument: the argument is cell 0
Called(argument) == [cell \in {0} |-> argument]
Argument == [cell |-> 0, path |-> <<>>]

\* ref.k, ref[i]
At(ref, k) == [ref EXCEPT !.path = Append(@, k)]

Deref(mem, ref) == ReadAt(mem[ref.cell], ref.path)

\* a write through ref
Store(mem, ref, value) == [mem EXCEPT ![ref.cell] = WriteAt(@, ref.path, value)]

\* const copy = argument: copy names the object the argument names
structuredClone_sameObject(mem, ref) == [mem |-> mem, at |-> ref]

\* const copy = structuredClone(argument): a new cell holding a deep copy
structuredClone(mem, ref) ==
    [mem |-> [cell \in DOMAIN mem \cup {Cardinality(DOMAIN mem)} |->
                 IF cell \in DOMAIN mem THEN mem[cell] ELSE Deref(mem, ref)],
     at |-> [cell |-> Cardinality(DOMAIN mem), path |-> <<>>]]

\* a statement has completed normally
Done(mem) == [mem |-> mem, ret |-> Ok(Undefined)]

\* the statements on the object at ref completed as completion, whose value
\* is the object as they wrote it; a throw precedes the writes
Written(mem, ref, completion) ==
    IF completion.ok THEN Done(Store(mem, ref, completion.val))
    ELSE [mem |-> mem, ret |-> completion]

\* ref = f(...), the call being run
AssignCall(run, ref) ==
    IF run.ret.ok THEN Done(Store(run.mem, ref, run.ret.val)) ELSE run

\* return ref, after run
Return(run, ref) ==
    IF run.ret.ok THEN [mem |-> run.mem, ret |-> Ok(Deref(run.mem, ref))] ELSE run

RECURSIVE ForOf(_, _, _, _, _)
RECURSIVE deserializeCollatedTrain_writes(_, _, _)

\* if (o.status) o.status = deserializeCollatedTrain(o.status), o being
\* copy (client.ts:66-68, part_003:77) or dueTime (part_003:99)
convertStatus_writes(mem, o, r) ==
    IF Truthy(Get(Deref(mem, o), "status"))
    THEN AssignCall(deserializeCollatedTrain_writes(mem, At(o, "status"), r),
                    At(o, "status"))
    ELSE Done(mem)

\* part_003:91-99, one iteration of the dueTimes loop
convertDueTime_writes(mem, dueTime) ==
    convertStatus_writes(Store(mem, dueTime, convertDueTimeTime(Deref(mem, dueTime))),
                         dueTime, "part_003")

\* one iteration of the loop body on the element e
Iteration(mem, e, body, r) ==
    CASE body = "plannedDestination" ->
             Written(mem, e, IF r = "part_003"
                             THEN convertPlannedDestination_p3(Deref(mem, e))
                             ELSE convertPlannedDestination(Deref(mem, e)))
      [] body = "nextPlatform" ->
             Written(mem, e, IF r = "part_003"
                             THEN convertNextPlatform_p3(Deref(mem, e))
                             ELSE convertNextPlatform(Deref(mem, e)))
      [] body = "dueTime" -> convertDueTime_writes(mem, e)

\* for (const e of list) body, from element i on: a throw ends the loop and
\* leaves what the iterations before it wrote
ForOf(mem, list, i, body, r) ==
    IF i > Len(Deref(mem, list).v) THEN Done(mem)
    ELSE IF Iteration(mem, At(list, i), body, r).ret.ok
    THEN ForOf(Iteration(mem, At(list, i), body, r).mem, list, i + 1, body, r)
    ELSE Iteration(mem, At(list, i), body, r)

\* if (timesAPI.key) for (const e of timesAPI.key) body, after run
ForOfIfTruthy(run, timesAPI, key, body, r) ==
    IF ~run.ret.ok THEN run
    ELSE IF Truthy(Get(Deref(run.mem, timesAPI), key))
    THEN ForOf(run.mem, At(timesAPI, key), 1, body, r)
    ELSE run

\* client.ts:38-58, part_003:49-71: the statements after the copy is made
convertTimesAPI_writes(mem, copy, r) ==
    Return(ForOfIfTruthy(
               ForOfIfTruthy(
                   Done(Store(mem, At(copy, "timesAPI"),
                              convertLastEvent(Deref(mem, At(copy, "timesAPI"))))),
                   At(copy, "timesAPI"), "plannedDestinations", "plannedDestination", r),
               At(copy, "timesAPI"), "nextPlatforms", "nextPlatform", r),
           copy)

\* client.ts:35-59, part_003:46-72
deserializeCollatedTrain_writes(mem, train, r) ==
    IF ~Truthy(Get(Deref(mem, train), "timesAPI")) THEN Return(Done(mem), train)
    ELSE convertTimesAPI_writes(structuredClone(mem, train).mem,
                                structuredClone(mem, train).at, r)

\* client.ts:63-69, part_003:76-78: the statements after the copy is made
convertHistoryEntry_writes(mem, copy, r) ==
    Return(convertStatus_writes(
               Store(mem, copy, convertIfDefined(Deref(mem, copy), "date")), copy, r),
           copy)

\* client.ts:61-70, part_003:74-79
deserializeHistoryEntry_writes(mem, historyEntry, r) ==
    convertHistoryEntry_writes(structuredClone(mem, historyEntry).mem,
                               structuredClone(mem, historyEntry).at, r)

\* client.ts:74-76, part_003:83-85: the statements after the copy is made
convertSummary_writes(mem, copy) ==
    Return(Done(Store(Store(mem, At(copy, "firstEntry"),
                            NewDate(Deref(mem, At(copy, "firstEntry")))),
                      At(copy, "lastEntry"),
                      NewDate(Deref(mem, At(copy, "lastEntry"))))),
           copy)

\* client.ts:72-77, part_003:81-86
deserializeTrainHistorySummary_writes(mem, historySummary) ==
    convertSummary_writes(structuredClone(mem, historySummary).mem,
                          structuredClone(mem, historySummary).at)

\* part_003:90-101: the statements after the copy is made; for...of needs
\* an iterable
convertDueTimes_writes(mem, copy) ==
    IF Deref(mem, copy).t # "list" THEN [mem |-> mem, ret |-> TypeError]
    ELSE Return(ForOf(mem, copy, 1, "dueTime", "part_003"), copy)

\* part_003:88-102
deserializeDueTimes_writes(mem, dueTimes) ==
    convertDueTimes_writes(structuredClone(mem, dueTimes).mem,
                           structuredClone(mem, dueTimes).at)

\* a function of texts and numbers, which nothing can write to
Unwritten(argument, completion) == [mem |-> Called(argument), ret |-> completion]

\* the run of the normalizer name on argument
Execution(name, argument) ==
    CASE name = "deserializeCollatedTrain" ->
             deserializeCollatedTrain_writes(Called(argument), Argument, "client.ts")
      [] name = "deserializeCollatedTrain_p3" ->
             deserializeCollatedTrain_writes(Called(argument), Argument, "part_003")
      [] name = "deserializeHistoryEntry" ->
             deserializeHistoryEntry_writes(Called(argument), Argument, "client.ts")
      [] name = "deserializeHistoryEntry_p3" ->
             deserializeHistoryEntry_writes(Called(argument), Argument, "part_003")
      [] name = "deserializeTrainHistorySummary" ->
             deserializeTrainHistorySummary_writes(Called(argument), Argument)
      [] name = "deserializeDueTimes" ->
             deserializeDueTimes_writes(Called(argument), Argument)

\* the function name is called on raw: it completes as result, and run is
\* what it did in memory; the caller's argument is cell 0 of what it leaves
Apply(name, result, run) ==
    /\ fn = name
    /\ ~called
    /\ called' = TRUE
    /\ ret' = result
    /\ raw' = Deref(run.mem, Argument)
    /\ UNCHANGED fn
    /\ UNCHANGED httpVars
    /\ UNCHANGED streamVars
    /\ UNCHANGED queryVars

DeserializeCollatedTrain ==
    Apply("deserializeCollatedTrain", deserializeCollatedTrain(raw),
          Execution("deserializeCollatedTrain", raw))

DeserializeCollatedTrain_p3 ==
    Apply("deserializeCollatedTrain_p3", deserializeCollatedTrain_p3(raw),
          Execution("deserializeCollatedTrain_p3", raw))

DeserializeHistoryEntry ==
    Apply("deserializeHistoryEntry", deserializeHistoryEntry(raw),
          Execution("deserializeHistoryEntry", raw))

DeserializeHistoryEntry_p3 ==
    Apply("deserializeHistoryEntry_p3", deserializeHistoryEntry_p3(raw),
          Execution("deserializeHistoryEntry_p3", raw))

DeserializeTrainHistorySummary ==
    Apply("deserializeTrainHistorySummary", deserializeTrainHistorySummary(raw),
          Execution("deserializeTrainHistorySummary", raw))

DeserializeDueTimes ==
    Apply("deserializeDueTimes", deserializeDueTimes(raw),
          Execution("deserializeDueTimes", raw))

NextNorm ==
    \/ DeserializeCollatedTrain
    \/ DeserializeCollatedTrain_p3
    \/ DeserializeHistoryEntry
    \/ DeserializeHistoryEntry_p3
    \/ DeserializeTrainHistorySummary
    \/ DeserializeDueTimes

SpecNorm == InitNorm /\ [][NextNorm]_vars

(***************************************************************************)
(* Properties of the normalizers                                           *)
(***************************************************************************)
Elems(x) == IF x.t = "list" THEN x.v ELSE <<>>

\* present on the wire: the key is there and its value is not null
Present(x) == ~Nullish(x)

IsBadTime(x) == x.t = "str" /\ x.v = "not-a-date"

RECURSIVE HasBadTime(_)
HasBadTime(x) ==
    CASE x.t = "obj" -> \E k \in DOMAIN x.v : HasBadTime(x.v[k])
      [] x.t = "list" -> \E i \in 1..Len(x.v) : HasBadTime(x.v[i])
      [] OTHER -> IsBadTime(x)

RanCollatedTrain ==
    called /\ fn \in {"deserializeCollatedTrain", "deserializeCollatedTrain_p3"}

\* the DueTime record of nextPlatforms[i] of a collated status
NextPlatformTime(status, i) ==
    Get(Elems(Get(Get(status, "timesAPI"), "nextPlatforms"))[i], "time")

PlannedFromTime(status, i) ==
    Get(Get(Elems(Get(Get(status, "timesAPI"), "plannedDestinations"))[i], "from"), "time")

LastEventTime(status) ==
    Get(Get(Get(status, "timesAPI"), "lastEvent"), "time")

NumNextPlatforms(status) == Len(Elems(Get(Get(status, "timesAPI"), "nextPlatforms")))
NumPlannedDestinations(status) ==
    Len(Elems(Get(Get(status, "timesAPI"), "plannedDestinations")))

\* C1: after deserializeCollatedTrain returns for a status whose timesAPI is
\* present, lastEvent.time, every plannedDestinations[i].from.time and every
\* nextPlatforms[i].time.actualScheduledTime / actualPredictedTime that was
\* present on the wire is a Date in the result, not the wire string or number.
C1_PresentTemporalFieldsAreDates ==
    (RanCollatedTrain /\ ret.ok /\ Truthy(Get(raw, "timesAPI"))) =>
        /\ Present(LastEventTime(raw)) => IsDate(LastEventTime(ret.val))
        /\ \A i \in 1..NumPlannedDestinations(raw) :
              Present(PlannedFromTime(raw, i)) => IsDate(PlannedFromTime(ret.val, i))
        /\ \A i \in 1..NumNextPlatforms(raw) :
              /\ Present(Get(NextPlatformTime(raw, i), "actualScheduledTime"))
                    => IsDate(Get(NextPlatformTime(ret.val, i), "actualScheduledTime"))
              /\ Present(Get(NextPlatformTime(raw, i), "actualPredictedTime"))
                    => IsDate(Get(NextPlatformTime(ret.val, i), "actualPredictedTime"))

\* C2: deserializeCollatedTrain, and deserializeHistoryEntry which calls it,
\* never throw on a status in which some subtree is absent (no lastEvent, a
\* plannedDestinations element without from, a nextPlatforms element without
\* time, no status).
C2_AbsentSubtreesNeverThrow ==
    (called /\ fn \in {"deserializeCollatedTrain", "deserializeCollatedTrain_p3",
                       "deserializeHistoryEntry", "deserializeHistoryEntry_p3"})
        => ret.ok

\* C3: a temporal field that is absent on the wire (firstEntry, lastEntry of a
\* history summary, date of a history entry) is absent in the normalized result.
C3_AbsentStaysAbsent ==
    (called /\ ret.ok /\ fn \in {"deserializeTrainHistorySummary",
                                 "deserializeHistoryEntry", "deserializeHistoryEntry_p3"})
        => \A k \in {"firstEntry", "lastEntry", "date"} :
              k \notin DOMAIN raw.v => k \notin DOMAIN ret.val.v

\* C4: nextPlatforms[i].time.actualScheduledTime that is null on the wire is
\* null after deserializeCollatedTrain.
C4_NullStaysNull ==
    (RanCollatedTrain /\ ret.ok) =>
        \A i \in 1..NumNextPlatforms(raw) :
            Get(NextPlatformTime(raw, i), "actualScheduledTime") = Null
                => Get(NextPlatformTime(ret.val, i), "actualScheduledTime") = Null

\* C5: a normalizer given a wire value in which a temporal field is present
\* but not parseable as an instant throws; it returns no record.
C5_UnparseableTimeIsAnError ==
    (called /\ HasBadTime(raw)) => ~ret.ok

(***************************************************************************)
(* Request/response facade: MetroApiClient.get*                            *)
(* The methods have the same text in both revisions (getDueTimes,          *)
(* getPlatformDueTimes and getStationDueTimes exist in part_003 only);     *)
(* they differ in the deserializeCollatedTrain their revision defines.     *)
(***************************************************************************)
Revisions == {"client.ts", "part_003"}

\* the deserializeCollatedTrain / deserializeHistoryEntry of revision r
collatedTrainOf(r, status) ==
    IF r = "client.ts" THEN deserializeCollatedTrain(status)
    ELSE deserializeCollatedTrain_p3(status)

historyEntryOf(r, entry) ==
    IF r = "client.ts" THEN deserializeHistoryEntry(entry)
    ELSE deserializeHistoryEntry_p3(entry)

\* if (data.status) data.status = deserializeCollatedTrain(data.status)
statusIfTruthy(r, data) ==
    IF Truthy(Get(data, "status"))
    THEN SetField(data, "status", collatedTrainOf(r, Get(data, "status")))
    ELSE Ok(data)

\* client.ts:107-109, once the lines before have completed as c
lastChangedIfDefined(c) ==
    IF c.ok THEN Ok(convertIfDefined(c.val, "lastChanged")) ELSE c

\* client.ts:104-109, one iteration over Object.values(data.trains)
convertTrainEntry(r, train) == lastChangedIfDefined(statusIfTruthy(r, train))

\* client.ts:102-111
convertTrains(r, data) ==
    LET trains == Get(data, "trains") IN
    IF Truthy(trains) /\ trains.t # "list"
    THEN SetField(data, "trains",
                  ForEachValue([k \in OverValues(trains) |->
                                   convertTrainEntry(r, trains.v[k])]))
    ELSE Ok(data)

\* client.ts:99-113, after response.json()
getTrains(r, data) == convertTrains(r, dateIfTruthy(data, "lastChecked"))

\* client.ts:123-132, after response.json()
getTrain(r, data) ==
    statusIfTruthy(r, dateIfTruthy(dateIfTruthy(data, "lastChecked"), "lastChanged"))

\* client.ts:139-141; Object.keys(undefined) throws
convertSummaries(data) ==
    LET trains == Get(data, "trains") IN
    IF Nullish(trains) THEN TypeError
    ELSE SetField(data, "trains",
                  ForEachValue([k \in OverValues(trains) |->
                                   deserializeTrainHistorySummary(trains.v[k])]))

\* client.ts:138-142, after response.json()
getHistorySummary(data) == convertSummaries(convertField(data, "lastChecked"))

\* client.ts:166-168
summaryIfTruthy(data) ==
    IF Truthy(Get(data, "summary"))
    THEN Put(data, "summary", deserializeTrainHistorySummary(Get(data, "summary")).val)
    ELSE data

\* client.ts:169-171; Array.prototype.map exists on arrays only
extractIfTruthy(r, data) ==
    LET extract == Get(data, "extract") IN
    IF ~Truthy(extract) THEN Ok(data)
    ELSE IF extract.t # "list" THEN TypeError
    ELSE SetField(data, "extract",
                  ForEach([i \in OverList(extract) |-> historyEntryOf(r, extract.v[i])]))

\* client.ts:163-173, after response.json()
getTrainHistory(r, data) ==
    extractIfTruthy(r, summaryIfTruthy(dateIfTruthy(data, "lastChecked")))

\* client.ts:192-194 / 199-201: for (const e of list) e.date = new Date(e.date)
convertEntryDates(list) ==
    IF list.t # "list" THEN TypeError
    ELSE Ok(List([i \in OverList(list) |-> convertField(list.v[i], "date")]))

\* client.ts:195-197, once the errors loop has completed as e
convertWarnings(data, e) ==
    IF e.ok
    THEN SetField(Put(data, "errors", e.val), "warnings",
                  convertEntryDates(Get(data, "warnings")))
    ELSE e

\* client.ts:191-203, after response.json()
getHeartbeatErrors(data) ==
    IF data.t = "obj" /\ "warnings" \in DOMAIN data.v
    THEN convertWarnings(data, convertEntryDates(Get(data, "errors")))
    ELSE convertEntryDates(data)

\* part_003:252 / 269 / 286
dueTimesIfTruthy(data) ==
    IF Truthy(Get(data, "dueTimes"))
    THEN SetField(data, "dueTimes", deserializeDueTimes(Get(data, "dueTimes")))
    ELSE Ok(data)

\* part_003:251-253, after response.json()
getDueTimes(data) == dueTimesIfTruthy(dateIfTruthy(data, "lastChecked"))

\* part_003:268-270, after response.json()
getPlatformDueTimes(data) == dueTimesIfTruthy(dateIfTruthy(data, "lastChecked"))

\* part_003:285-287, after response.json()
getStationDueTimes(data) == dueTimesIfTruthy(dateIfTruthy(data, "lastChecked"))

\* client.ts:85-86 and 224-225: return response.json()
getConstants(data) == Ok(data)
getTimetable(data) == Ok(data)

(***************************************************************************)
(* What the network can produce for a request: fetch rejects (connection   *)
(* refused, DNS failure) or resolves with a response of any HTTP status;   *)
(* fetch does not reject on a non-2xx status. response.json() rejects with *)
(* SyntaxError when the body is not JSON.                                  *)
(***************************************************************************)
FullSummary == Obj([numEntries |-> Num(5), firstEntry |-> Iso(1), lastEntry |-> Iso(2)])

TrainsBodies ==
    {Prune([lastChecked |-> lc, trains |-> tr]) :
        lc \in {Undefined, Iso(1)},
        tr \in {Undefined, Obj(<<>>)} \cup
               {Obj([k \in {"101"} |-> Prune([status |-> st, lastChanged |-> ch])]) :
                   st \in {Undefined} \cup StatusSamples,
                   ch \in {Undefined, Null, Iso(2)}}}

TrainBodies ==
    {Prune([lastChecked |-> lc, lastChanged |-> ch, timetable |-> Null, status |-> st]) :
        lc \in {Undefined, Iso(1)},
        ch \in {Undefined, Null, Iso(2)},
        st \in {Undefined} \cup StatusSamples}

HistorySummaryBodies ==
    {Obj([lastChecked |-> Iso(1), trains |-> tr,
          heartbeatErrors |-> FullSummary, heartbeatWarnings |-> FullSummary]) :
        tr \in {Obj(<<>>), Obj([k \in {"101"} |-> FullSummary])}}

TrainHistoryBodies ==
    {Prune([lastChecked |-> lc, summary |-> sm, extract |-> ex]) :
        lc \in {Undefined, Iso(1)},
        sm \in {Undefined, FullSummary, Obj([numEntries |-> Num(5)])},
        ex \in {Undefined} \cup {List(q) : q \in SeqsUpTo(HistoryEntryInputs, MaxLen)}}

HeartbeatErrorEntries ==
    {Obj([date |-> d, api |-> Str("timesAPI"), message |-> Str("timeout")]) :
        d \in {Iso(1), Num(2)}}

HeartbeatErrorsBodies ==
    LET lists == {List(q) : q \in SeqsUpTo(HeartbeatErrorEntries, MaxLen)} IN
    lists \cup {Obj([errors |-> e, warnings |-> w]) : e \in lists, w \in lists}

DueTimesBodies(dueTimes) ==
    {Prune([lastChecked |-> lc, dueTimes |-> dt]) :
        lc \in {Undefined, Iso(1)}, dt \in {Undefined} \cup dueTimes}

ConstantsBodies == {Obj([NEW_DAY_HOUR |-> Num(3)])}
TimetableBodies == {Obj(<<>>), Obj([k \in {"101"} |-> Obj([in |-> List(<<>>), out |-> List(<<>>)])])}

ErrorStatuses == {404, 500}
ErrorBody == Obj([error |-> Str("Not Found")])

Success(status) == status >= 200 /\ status <= 299

NetworkOutcomes(bodies) ==
    {NoResponse}
    \cup {[arrived |-> TRUE, status |-> 200, json |-> TRUE, body |-> b] : b \in bodies}
    \cup {[arrived |-> TRUE, status |-> st, json |-> TRUE, body |-> ErrorBody] :
             st \in ErrorStatuses}
    \cup {[arrived |-> TRUE, status |-> st, json |-> FALSE, body |-> Str("<html>")] :
             st \in ErrorStatuses}

\* settlement of an async method: await fetch(...), await response.json(),
\* then the method's synchronous rest, whose completion is result
Settled(net, result) ==
    IF ~net.arrived THEN [state |-> "rejected", val |-> Str("TypeError: fetch failed")]
    ELSE IF ~net.json THEN [state |-> "rejected", val |-> SyntaxError.val]
    ELSE IF result.ok THEN [state |-> "fulfilled", val |-> result.val]
    ELSE [state |-> "rejected", val |-> result.val]

InitHttp ==
    /\ NormIdle
    /\ StreamIdle
    /\ QueryIdle
    /\ rev \in Revisions
    /\ hpc = "idle"
    /\ method = "none"
    /\ response = NoResponse
    /\ outcome = Pending

\* the method runs up to `await fetch(...)`: the request is handed to the
\* transport and the method returns its pending promise to the caller
Requested(m) ==
    /\ hpc = "idle"
    /\ hpc' = "requested"
    /\ method' = m
    /\ UNCHANGED <<rev, response, outcome>>

\* a later turn of the event loop: fetch settles. When it rejects the method
\* rejects; when it resolves, on the status line, the method calls
\* response.json() and waits again, the body not read yet
Fetched(m, net) ==
    /\ hpc = "requested"
    /\ method = m
    /\ IF net.arrived
       THEN /\ hpc' = "responded"
            /\ response' = [arrived |-> TRUE, status |-> net.status,
                            json |-> FALSE, body |-> Undefined]
            /\ UNCHANGED outcome
       ELSE /\ hpc' = "settled"
            /\ response' = net
            /\ outcome' = Settled(net, Ok(Undefined))
    /\ UNCHANGED <<rev, method>>

\* a later turn again: response.json() settles on the body of net, and the
\* synchronous rest of the method, completing as result, settles the promise
Resumed(m, net, result) ==
    /\ hpc = "responded"
    /\ method = m
    /\ net.arrived
    /\ net.status = response.status
    /\ hpc' = "settled"
    /\ response' = net
    /\ outcome' = Settled(net, result)
    /\ UNCHANGED <<rev, method>>

\* one call of the async method m, to which the network answers net: its
\* three runs between the waits are three steps. The client holds nothing
\* but its base URL, so what other calls do while this one waits leaves
\* every variable of this call as it is.
Call(m, net, result) ==
    /\ \/ Requested(m)
       \/ Fetched(m, net)
       \/ Resumed(m, net, result)
    /\ UNCHANGED normVars
    /\ UNCHANGED streamVars
    /\ UNCHANGED queryVars

\* the completion used when there is no decoded body to work on
NoBody == Ok(Undefined)
Decoded(net) == net.arrived /\ net.json

GetConstants ==
    \E net \in NetworkOutcomes(ConstantsBodies) :
        Call("getConstants", net,
             IF Decoded(net) THEN getConstants(net.body) ELSE NoBody)

GetTrains ==
    \E net \in NetworkOutcomes(TrainsBodies) :
        Call("getTrains", net,
             IF Decoded(net) THEN getTrains(rev, net.body) ELSE NoBody)

GetTrain ==
    \E net \in NetworkOutcomes(TrainBodies) :
        Call("getTrain", net,
             IF Decoded(net) THEN getTrain(rev, net.body) ELSE NoBody)

GetHistorySummary ==
    \E net \in NetworkOutcomes(HistorySummaryBodies) :
        Call("getHistorySummary", net,
             IF Decoded(net) THEN getHistorySummary(net.body) ELSE NoBody)

GetTrainHistory ==
    \E net \in NetworkOutcomes(TrainHistoryBodies) :
        Call("getTrainHistory", net,
             IF Decoded(net) THEN getTrainHistory(rev, net.body) ELSE NoBody)

GetHeartbeatErrors ==
    \E net \in NetworkOutcomes(HeartbeatErrorsBodies) :
        Call("getHeartbeatErrors", net,
             IF Decoded(net) THEN getHeartbeatErrors(net.body) ELSE NoBody)

GetTimetable ==
    \E net \in NetworkOutcomes(TimetableBodies) :
        Call("getTimetable", net,
             IF Decoded(net) THEN getTimetable(net.body) ELSE NoBody)

GetDueTimes ==
    /\ rev = "part_003"
    /\ \E net \in NetworkOutcomes(DueTimesBodies(DueTimesMaps)) :
        Call("getDueTimes", net,
             IF Decoded(net) THEN getDueTimes(net.body) ELSE NoBody)

GetPlatformDueTimes ==
    /\ rev = "part_003"
    /\ \E net \in NetworkOutcomes(DueTimesBodies(DueTimesLists)) :
        Call("getPlatformDueTimes", net,
             IF Decoded(net) THEN getPlatformDueTimes(net.body) ELSE NoBody)

GetStationDueTimes ==
    /\ rev = "part_003"
    /\ \E net \in NetworkOutcomes(DueTimesBodies(DueTimesLists)) :
        Call("getStationDueTimes", net,
             IF Decoded(net) THEN getStationDueTimes(net.body) ELSE NoBody)

NextHttp ==
    \/ GetConstants
    \/ GetTrains
    \/ GetTrain
    \/ GetHistorySummary
    \/ GetTrainHistory
    \/ GetHeartbeatErrors
    \/ GetTimetable
    \/ GetDueTimes
    \/ GetPlatformDueTimes
    \/ GetStationDueTimes

SpecHttp == InitHttp /\ [][NextHttp]_vars

(***************************************************************************)
(* Properties of the facade                                                *)
(***************************************************************************)
FacadeMethods ==
    {"getConstants", "getTrains", "getTrain", "getHistorySummary",
     "getTrainHistory", "getHeartbeatErrors", "getTimetable"}

\* C6: a facade call whose HTTP response has a non-2xx status ends rejected.
C6_NonSuccessStatusRejects ==
    (hpc = "settled" /\ method \in FacadeMethods
        /\ response.arrived /\ ~Success(response.status))
        => outcome.state = "rejected"

\* every due entry of a normalized dueTimes map has its times as Dates
DueEntryConverted(e) ==
    LET time == Get(e, "time") IN
    /\ Present(Get(time, "actualPredictedTime")) => IsDate(Get(time, "actualPredictedTime"))
    /\ Present(Get(time, "actualScheduledTime")) => IsDate(Get(time, "actualScheduledTime"))

\* C7: getDueTimes, on a response whose dueTimes is a map from platform code
\* to a list of due entries, fulfils, and every entry's actualPredictedTime
\* and non-null actualScheduledTime is a Date.
C7_GetDueTimesConvertsTheMap ==
    (hpc = "settled" /\ method = "getDueTimes" /\ Decoded(response)
        /\ Success(response.status) /\ Get(response.body, "dueTimes").t = "obj")
        => /\ outcome.state = "fulfilled"
           /\ LET out == Get(outcome.val, "dueTimes") IN
              out.t = "obj" /\
              \A k \in DOMAIN out.v : \A i \in 1..Len(Elems(out.v[k])) :
                  DueEntryConverted(out.v[k].v[i])

(***************************************************************************)
(* Stream subscriptions. A frame is what the transport hands to onMessage: *)
(* event is its kind label, json says whether its data parses as JSON and  *)
(* body is the parsed value. What a handler did with a frame is recorded   *)
(* as the callbacks it invoked (in order, with their argument), the number *)
(* of console.warn calls and the error that left the handler, if any.      *)
(***************************************************************************)
Invoked(cb, data) ==
    [calls |-> <<[cb |-> cb, data |-> data]>>, warns |-> 0, threw |-> "none"]

\* console.warn(...)
Warned == [calls |-> <<>>, warns |-> 1, threw |-> "none"]

\* the completion r is a throw nothing in the handler catches
Escaped(r) == [calls |-> <<>>, warns |-> 0, threw |-> r.val.v]

\* callbacks.cb(data), data being the value of the completion r
Deliver(cb, r) == IF r.ok THEN Invoked(cb, r.val) ELSE Escaped(r)

\* callbacks.cb?.(data)
DeliverIfRegistered(cbs, cb, r) ==
    IF ~r.ok THEN Escaped(r)
    ELSE IF cb \in cbs THEN Invoked(cb, r.val)
    ELSE Silent

\* client.ts:269-275, part_003:344-348 and 430-436
convertTrainStatuses(r, data) ==
    LET trains == Get(data, "trains") IN
    IF Truthy(trains) /\ trains.t # "list"
    THEN SetField(data, "trains",
                  ForEachValue([k \in OverValues(trains) |->
                                   statusIfTruthy(r, trains.v[k])]))
    ELSE Ok(data)

\* client.ts:264-284, data being JSON.parse(event.data)
stream_switch(cbs, event, data) ==
    CASE event = "new-history" ->
             DeliverIfRegistered(cbs, "onNewHistory",
                 convertTrainStatuses("client.ts", convertIfDefined(data, "date")))
      [] event = "heartbeat-error" ->
             DeliverIfRegistered(cbs, "onHeartbeatError", Ok(data))
      [] event = "heartbeat-warning" ->
             DeliverIfRegistered(cbs, "onHeartbeatWarning", Ok(data))
      [] OTHER -> Silent

\* client.ts:262-285
stream_onMessage(cbs, f) ==
    IF f.json THEN stream_switch(cbs, f.event, f.body) ELSE Escaped(SyntaxError)

\* part_003:342-360, data with its date already converted
streamHistory_switch(event, data) ==
    CASE event = "new-trains-history" ->
             Deliver("onNewTrainHistoryEntries", convertTrainStatuses("part_003", data))
      [] event = "heartbeat-error" -> Invoked("onHeartbeatError", data)
      [] event = "heartbeat-warning" -> Invoked("onHeartbeatWarnings", data)
      [] OTHER -> Warned

\* part_003:339-361
streamHistory_onMessage(f) ==
    IF f.json THEN streamHistory_switch(f.event, convertIfDefined(f.body, "date"))
    ELSE Escaped(SyntaxError)

\* part_003:389-398
streamNewTrainHistory_onMessage(f) ==
    IF f.event # "new-train-history" THEN Warned
    ELSE IF ~f.json THEN Escaped(SyntaxError)
    ELSE Deliver("onNewHistoryEntry",
                 statusIfTruthy("part_003", convertIfDefined(f.body, "date")))

\* part_003:423-438
streamTrainsHistory_onMessage(f) ==
    IF f.event # "new-trains-history" THEN Warned
    ELSE IF ~f.json THEN Escaped(SyntaxError)
    ELSE Deliver("onNewHistoryEntries",
                 convertTrainStatuses("part_003", convertIfDefined(f.body, "date")))

\* part_003:470-484, data with its date already converted
streamHeartbeatErrors_switch(cbs, event, data) ==
    CASE event = "heartbeat-error" -> Invoked("onHeartbeatError", data)
      [] event = "heartbeat-warnings" ->
             IF "onHeartbeatWarnings" \in cbs
             THEN Invoked("onHeartbeatWarnings", data)
             ELSE Warned
      [] OTHER -> Warned

\* part_003:467-485
streamHeartbeatErrors_onMessage(cbs, f) ==
    IF f.json
    THEN streamHeartbeatErrors_switch(cbs, f.event, convertIfDefined(f.body, "date"))
    ELSE Escaped(SyntaxError)

\* part_003:512-517: the event kind is not looked at
streamStationDueTimes_onMessage(f) ==
    IF f.json
    THEN Deliver("onDueTimes", dueTimesIfTruthy(convertIfDefined(f.body, "date")))
    ELSE Escaped(SyntaxError)

\* part_003:545-550: the event kind is not looked at
streamPlatformDueTimes_onMessage(f) ==
    IF f.json
    THEN Deliver("onDueTimes", dueTimesIfTruthy(convertIfDefined(f.body, "date")))
    ELSE Escaped(SyntaxError)

(***************************************************************************)
(* Frames. The payload of a kind has the shape types.ts declares for it;   *)
(* every key may be missing. Any stream may be handed a frame of any kind. *)
(***************************************************************************)
\* types.ts:601-613 (new-trains-history), and the new-history of client.ts
TrainsHistoryPayloads ==
    {Prune([date |-> d,
            trains |-> Obj([k \in {"101"} |->
                              Prune([active |-> Bool(TRUE), status |-> st])])]) :
        d \in {Undefined, Iso(1)}, st \in {Undefined} \cup StatusSamples}

\* types.ts:615-618 (new-train-history)
TrainHistoryPayloads ==
    {Prune([date |-> d, active |-> Bool(TRUE), status |-> st]) :
        d \in {Undefined, Num(2)}, st \in {Undefined} \cup StatusSamples}

\* types.ts:620-622 (heartbeat-error)
HeartbeatErrorPayloads ==
    {Prune([date |-> d, api |-> Str("timesAPI"), message |-> Str("timeout")]) :
        d \in {Undefined, Iso(1)}}

\* types.ts:624-626 (heartbeat-warnings)
HeartbeatWarningsPayloads ==
    {Prune([date |-> d, api |-> Str("timesAPI"),
            warnings |-> Obj([k \in {"101"} |-> Str("late")])]) :
        d \in {Undefined, Iso(1)}}

\* types.ts:46-53 and 628-662: due entries of a due-times event
StreamDueTimeElems ==
    {Obj([trn |-> Str("101")]),
     Obj([trn |-> Str("101"),
          time |-> Obj([dueIn |-> Num(3), actualScheduledTime |-> Null,
                        actualPredictedTime |-> Iso(2)])]),
     Obj([trn |-> Str("102"),
          time |-> Obj([dueIn |-> Num(5), actualScheduledTime |-> Iso(1),
                        actualPredictedTime |-> Iso(2)])])}

\* types.ts:628-662 (station-due-times, platform-due-times)
DueTimesPayloads ==
    {Prune([date |-> d, dueTimes |-> l]) :
        d \in {Undefined, Iso(1)},
        l \in {Undefined} \cup {List(q) : q \in SeqsUpTo(StreamDueTimeElems, MaxLen)}}

\* the kind of a frame the client has no name for
UnknownKind == "service-notice"

EventKinds ==
    {"new-history", "new-trains-history", "new-train-history", "heartbeat-error",
     "heartbeat-warning", "heartbeat-warnings", "station-due-times",
     "platform-due-times", UnknownKind}

PayloadsOf(kind) ==
    CASE kind \in {"new-history", "new-trains-history"} -> TrainsHistoryPayloads
      [] kind = "new-train-history" -> TrainHistoryPayloads
      [] kind = "heartbeat-error" -> HeartbeatErrorPayloads
      [] kind \in {"heartbeat-warning", "heartbeat-warnings"} -> HeartbeatWarningsPayloads
      [] kind \in {"station-due-times", "platform-due-times"} -> DueTimesPayloads
      [] OTHER -> {Obj([date |-> Iso(1)])}

Frames ==
    UNION {{[event |-> k, json |-> TRUE, body |-> b] : b \in PayloadsOf(k)} :
              k \in EventKinds}
    \cup {[event |-> k, json |-> FALSE, body |-> Str("{\"date\":")] : k \in EventKinds}

\* the frames delivered while the deliveries are recorded: of every kind one
\* frame with every key on the wire, and one whose data is not JSON
RecordedPayloads ==
    {Obj([date |-> Iso(1),
          trains |-> Obj([k \in {"101"} |-> Obj([active |-> Bool(TRUE)])])]),
     Obj([date |-> Num(2), active |-> Bool(TRUE)]),
     Obj([date |-> Iso(1), api |-> Str("timesAPI"), message |-> Str("timeout")]),
     Obj([date |-> Iso(1), api |-> Str("timesAPI"),
          warnings |-> Obj([k \in {"101"} |-> Str("late")])]),
     Obj([date |-> Iso(1), dueTimes |-> List(<<>>)]),
     Obj([date |-> Iso(1)])}

RecordedFrames == {f \in Frames : f.json => f.body \in RecordedPayloads}

\* how many deliveries are recorded
MaxFrames == 2

\* the frames the transport may deliver next
Inbound ==
    IF log.recording
    THEN {f \in RecordedFrames : Len(log.arrived) < MaxFrames}
    ELSE Frames

\* the record of deliveries after the handler did result with frame f: the
\* callbacks it invoked are noted with the position of the frame
Record(l, f, result) ==
    IF l.recording
    THEN [l EXCEPT !.arrived = Append(@, f),
                   !.invoked = @ \o [i \in DOMAIN result.calls |->
                                      [n |-> Len(l.arrived) + 1,
                                       cb |-> result.calls[i].cb]]]
    ELSE l

(***************************************************************************)
(* Subscriptions. Each stream method hands its callbacks and its onMessage *)
(* to createEventSource and returns the handle {connect, close}. The       *)
(* connection behind the handle is that of section 4.3 of the              *)
(* specification: disconnected, connecting, connected,                     *)
(* scheduled-to-reconnect.                                                 *)
(***************************************************************************)
InitStream ==
    /\ NormIdle
    /\ rev \in Revisions
    /\ hpc = "idle"
    /\ method = "none"
    /\ response = NoResponse
    /\ outcome = Pending
    /\ StreamIdle
    /\ QueryIdle

\* createEventSource({url, ...callbacks, onMessage}): the subscription exists
\* and its first connection attempt is under way
createEventSource(r, m, cbs) ==
    /\ rev = r
    /\ sub = NoSubscription
    /\ sub' = [method |-> m, callbacks |-> cbs]
    /\ readyState' = "connecting"
    /\ transport' = "opening"
    /\ timer' = FALSE
    /\ notified' = <<>>
    /\ op' = [name |-> "subscribe", from |-> readyState]
    /\ UNCHANGED <<frame, handled, log>>
    /\ UNCHANGED normVars
    /\ UNCHANGED httpVars
    /\ UNCHANGED queryVars

\* client.ts:228-287; every callback is optional
Stream ==
    \E cbs \in SUBSET {"onNewHistory", "onHeartbeatError", "onHeartbeatWarning"} :
        createEventSource("client.ts", "stream", cbs)

\* part_003:321-363
StreamHistory ==
    createEventSource("part_003", "streamHistory",
        {"onNewTrainHistoryEntries", "onHeartbeatError", "onHeartbeatWarnings"})

\* part_003:372-400
StreamNewTrainHistory ==
    createEventSource("part_003", "streamNewTrainHistory", {"onNewHistoryEntry"})

\* part_003:407-440
StreamTrainsHistory ==
    createEventSource("part_003", "streamTrainsHistory", {"onNewHistoryEntries"})

\* part_003:447-487; onHeartbeatWarnings is optional
StreamHeartbeatErrors ==
    \E cbs \in {{"onHeartbeatError"}, {"onHeartbeatError", "onHeartbeatWarnings"}} :
        createEventSource("part_003", "streamHeartbeatErrors", cbs)

\* part_003:495-519
StreamStationDueTimes ==
    createEventSource("part_003", "streamStationDueTimes", {"onDueTimes"})

\* part_003:528-552
StreamPlatformDueTimes ==
    createEventSource("part_003", "streamPlatformDueTimes", {"onDueTimes"})

\* a step of the connection: its new state, and the lifecycle callbacks
\* the step invokes; the rest is left alone
Lifecycle(name, state, tr, tm, cbs) ==
    /\ sub # NoSubscription
    /\ op' = [name |-> name, from |-> readyState]
    /\ readyState' = state
    /\ transport' = tr
    /\ timer' = tm
    /\ notified' = cbs
    /\ UNCHANGED <<sub, frame, handled, log>>
    /\ UNCHANGED normVars
    /\ UNCHANGED httpVars
    /\ UNCHANGED queryVars

\* the connection attempt succeeded
Opened ==
    /\ transport = "opening"
    /\ Lifecycle("opened", "connected", "open", FALSE, <<"onConnect">>)

\* the connection attempt failed: a reconnect is scheduled
ConnectFailed ==
    /\ transport = "opening"
    /\ Lifecycle("failed", "scheduled-to-reconnect", "none", TRUE, <<"onScheduleReconnect">>)

\* the open connection dropped: a reconnect is scheduled
Dropped ==
    /\ transport = "open"
    /\ Lifecycle("dropped", "scheduled-to-reconnect", "none", TRUE,
                 <<"onDisconnect", "onScheduleReconnect">>)

\* a reconnect timer that fires without starting an attempt
Reconnect_noAttempt ==
    /\ timer
    /\ Lifecycle("timer", "scheduled-to-reconnect", "none", FALSE, <<>>)

\* the reconnect timer fired
Reconnect ==
    /\ timer
    /\ Lifecycle("timer", "connecting", "opening", FALSE, <<>>)

\* what close() tells the caller: nothing when the subscription is closed
\* already; whether the close of a live subscription invokes onDisconnect
\* is left open
CloseNotifies(state) ==
    IF state = "disconnected" THEN {<<>>} ELSE {<<>>, <<"onDisconnect">>}

\* a close() that leaves a pending reconnect timer running
Close_keepsTimer ==
    Lifecycle("close", "disconnected", "none", timer, <<>>)

\* a close() that invokes onDisconnect every time it is called
Close_notifiesAlways ==
    Lifecycle("close", "disconnected", "none", FALSE, <<"onDisconnect">>)

\* close() of the handle, in any state: the attempt in flight and the
\* pending timer are cancelled, the transport is released
Close ==
    \E cbs \in CloseNotifies(readyState) :
        Lifecycle("close", "disconnected", "none", FALSE, cbs)

\* a connect() that starts an attempt whatever the state
Connect_always ==
    Lifecycle("connect", "connecting", "opening", FALSE, <<>>)

\* connect() of the handle: a new attempt when disconnected, nothing when
\* connecting or connected; while a reconnect is scheduled it either waits
\* for the timer or replaces it by an attempt
Connect ==
    \/ /\ readyState = "disconnected"
       /\ Lifecycle("connect", "connecting", "opening", FALSE, <<>>)
    \/ /\ readyState \in {"connecting", "connected", "scheduled-to-reconnect"}
       /\ Lifecycle("connect", readyState, transport, timer, <<>>)
    \/ /\ readyState = "scheduled-to-reconnect"
       /\ Lifecycle("connect", "connecting", "opening", FALSE, <<>>)

\* the transport hands frame f to the onMessage of stream method m; a data
\* callback the handler invokes returns, or calls close() of the handle
OnMessage(m, f, result) ==
    /\ sub.method = m
    /\ transport = "open"
    /\ frame' = f
    /\ handled' = result
    /\ log' = Record(log, f, result)
    /\ \/ /\ UNCHANGED connVars
          /\ op' = [name |-> "message", from |-> readyState]
       \/ /\ result.calls # <<>>
          /\ op' = [name |-> "close-in-callback", from |-> readyState]
          /\ readyState' = "disconnected"
          /\ transport' = "none"
          /\ timer' = FALSE
          /\ notified' \in CloseNotifies(readyState)
    /\ UNCHANGED sub
    /\ UNCHANGED normVars
    /\ UNCHANGED httpVars
    /\ UNCHANGED queryVars

StreamOnMessage ==
    \E f \in Inbound : OnMessage("stream", f, stream_onMessage(sub.callbacks, f))

StreamHistoryOnMessage ==
    \E f \in Inbound : OnMessage("streamHistory", f, streamHistory_onMessage(f))

StreamNewTrainHistoryOnMessage ==
    \E f \in Inbound :
        OnMessage("streamNewTrainHistory", f, streamNewTrainHistory_onMessage(f))

StreamTrainsHistoryOnMessage ==
    \E f \in Inbound :
        OnMessage("streamTrainsHistory", f, streamTrainsHistory_onMessage(f))

StreamHeartbeatErrorsOnMessage ==
    \E f \in Inbound :
        OnMessage("streamHeartbeatErrors", f,
                  streamHeartbeatErrors_onMessage(sub.callbacks, f))

StreamStationDueTimesOnMessage ==
    \E f \in Inbound :
        OnMessage("streamStationDueTimes", f, streamStationDueTimes_onMessage(f))

StreamPlatformDueTimesOnMessage ==
    \E f \in Inbound :
        OnMessage("streamPlatformDueTimes", f, streamPlatformDueTimes_onMessage(f))

NextStream ==
    \/ Stream
    \/ StreamHistory
    \/ StreamNewTrainHistory
    \/ StreamTrainsHistory
    \/ StreamHeartbeatErrors
    \/ StreamStationDueTimes
    \/ StreamPlatformDueTimes
    \/ Opened
    \/ ConnectFailed
    \/ Dropped
    \/ Reconnect
    \/ Close
    \/ Connect
    \/ StreamOnMessage
    \/ StreamHistoryOnMessage
    \/ StreamNewTrainHistoryOnMessage
    \/ StreamTrainsHistoryOnMessage
    \/ StreamHeartbeatErrorsOnMessage
    \/ StreamStationDueTimesOnMessage
    \/ StreamPlatformDueTimesOnMessage

SpecStream == InitStream /\ [][NextStream]_vars

\* the same client, the deliveries being recorded
InitRecorded ==
    /\ NormIdle
    /\ rev \in Revisions
    /\ hpc = "idle"
    /\ method = "none"
    /\ response = NoResponse
    /\ outcome = Pending
    /\ sub = NoSubscription
    /\ readyState = "disconnected"
    /\ transport = "none"
    /\ timer = FALSE
    /\ notified = <<>>
    /\ op = NoOp
    /\ frame = NoFrame
    /\ handled = Silent
    /\ log = [NoLog EXCEPT !.recording = TRUE]
    /\ QueryIdle

SpecRecorded == InitRecorded /\ [][NextStream]_vars

\* a pending reconnect timer fires unless it is cancelled
SpecStreamLive == SpecStream /\ WF_vars(Reconnect)

(***************************************************************************)
(* Properties of the stream subscriptions                                  *)
(***************************************************************************)
\* a frame has been handed to the handler; handled is what it did with it
Delivered == frame # NoFrame

\* this step hands a frame to the handler
Delivery == op'.name \in {"message", "close-in-callback"}

\* the callbacks the handler invoked, in order
CallbacksInvoked == [i \in DOMAIN handled.calls |-> handled.calls[i].cb]

\* the event kinds a stream knows: those its handler names, and those
\* types.ts (for stream: part_001) declares for it
Recognized(m) ==
    CASE m = "stream" ->
             {"new-history", "heartbeat-error", "heartbeat-warning", "heartbeat-warnings"}
      [] m = "streamHistory" ->
             {"new-trains-history", "heartbeat-error", "heartbeat-warning",
              "heartbeat-warnings"}
      [] m = "streamNewTrainHistory" -> {"new-train-history"}
      [] m = "streamTrainsHistory" -> {"new-trains-history"}
      [] m = "streamHeartbeatErrors" -> {"heartbeat-error", "heartbeat-warnings"}
      [] m = "streamStationDueTimes" -> {"station-due-times"}
      [] m = "streamPlatformDueTimes" -> {"platform-due-times"}
      [] OTHER -> {}

\* C8: on every stream, a frame whose event kind the stream does not
\* recognize invokes no data callback, and handling it leaves the state of
\* the connection as it was (the connection is not closed).
C8_UnrecognizedKindIsIgnored ==
    /\ []((Delivered /\ frame.json /\ frame.event \notin Recognized(sub.method))
            => handled.calls = <<>>)
    /\ [][(Delivery /\ frame'.json /\ frame'.event \notin Recognized(sub.method))
            => readyState' = readyState]_vars

\* the streams that carry heartbeat events
HeartbeatStreams == {"stream", "streamHistory", "streamHeartbeatErrors"}

\* the heartbeat event kinds (types.ts:620-626)
HeartbeatKinds == {"heartbeat-error", "heartbeat-warnings"}

\* the callback a heartbeat stream registers for a heartbeat event kind
CallbackOf(m, kind) ==
    IF kind = "heartbeat-error" THEN "onHeartbeatError"
    ELSE IF m = "stream" THEN "onHeartbeatWarning"
    ELSE "onHeartbeatWarnings"

\* C9: on a stream that carries heartbeat events, a "heartbeat-warnings"
\* frame is routed to the registered warnings callback and a
\* "heartbeat-error" frame to the registered error callback: the frame
\* invokes the callback of its own kind, once, and no other callback.
C9_HeartbeatFramesReachTheirCallback ==
    (Delivered /\ frame.json /\ sub.method \in HeartbeatStreams
        /\ frame.event \in HeartbeatKinds
        /\ CallbackOf(sub.method, frame.event) \in sub.callbacks)
        => CallbacksInvoked = <<CallbackOf(sub.method, frame.event)>>

\* C10: a frame whose payload is not valid JSON is dropped: no data callback
\* is invoked, a warning is reported, no error leaves the handler, and
\* handling it leaves the state of the connection as it was, so that the
\* next frame is handed to the handler as before.
C10_InvalidJsonFrameIsDropped ==
    /\ []((Delivered /\ ~frame.json)
            => /\ handled.calls = <<>>
               /\ handled.threw = "none"
               /\ handled.warns >= 1)
    /\ [][(Delivery /\ ~frame'.json) => readyState' = readyState]_vars

\* C11: on every stream, a frame whose event kind the stream does not
\* recognize is reported as a warning, exactly one, no error leaves the
\* handler, and handling it leaves the state of the connection as it was,
\* so that the frames after it are handed to the handler as before.
C11_UnrecognizedKindIsWarnedOnce ==
    /\ []((Delivered /\ frame.json /\ frame.event \notin Recognized(sub.method))
            => (handled.warns = 1 /\ handled.threw = "none"))
    /\ [][(Delivery /\ frame'.json /\ frame'.event \notin Recognized(sub.method))
            => (readyState' = readyState /\ sub' = sub)]_vars

\* C12: whenever a frame carries a date, every payload its handler hands to
\* a data callback has that date as an instant.
C12_DeliveredDateIsAnInstant ==
    (Delivered /\ frame.json /\ Present(Get(frame.body, "date")))
        => \A i \in DOMAIN handled.calls :
               IsInstant(Get(handled.calls[i].data, "date"))

(***************************************************************************)
(* Properties of the connection                                            *)
(***************************************************************************)
\* nothing of the connection is left: no transport, no pending timer
Closed == readyState = "disconnected" /\ transport = "none" /\ ~timer

\* C13: close() on a subscription that is closed already changes nothing:
\* the state stays disconnected and onDisconnect is not invoked again; and
\* close() called by a data callback, while its frame is being handled,
\* closes the subscription and lets the handler complete without an error.
C13_SecondCloseIsNoOp ==
    /\ (op = [name |-> "close", from |-> "disconnected"])
           => (Closed /\ notified = <<>>)
    /\ (op.name = "close-in-callback")
           => (Closed /\ handled.calls # <<>> /\ handled.threw = "none"
                 /\ Len(notified) <= 1)

\* close() has been called on a closed subscription that has handled a frame
C13_Witness ==
    op = [name |-> "close", from |-> "disconnected"] /\ Delivered

\* C14: a connection that drops without the caller closing it leaves the
\* subscription scheduled-to-reconnect with a timer pending, and a
\* subscription that is scheduled-to-reconnect is connecting again later on
\* with no call of the caller, unless the caller closes it first.
C14_DropLeadsToReconnect ==
    /\ [](op.name \in {"dropped", "failed"}
            => (readyState = "scheduled-to-reconnect" /\ timer))
    /\ (readyState = "scheduled-to-reconnect")
           ~> (readyState = "connecting" \/ op.name = "close")

\* the timer of a dropped connection has fired
C14_Witness ==
    op = [name |-> "timer", from |-> "scheduled-to-reconnect"]
        /\ readyState = "connecting" /\ Delivered

\* close() of the handle, called by the caller or by one of its callbacks
ClosedByCaller == op.name \in {"close", "close-in-callback"}

\* C15: close(), in whatever state it is called, leaves the subscription
\* disconnected with no connection attempt in flight and no reconnect timer
\* pending; a subscription is disconnected only after a close() of the
\* caller; and a closed subscription stays disconnected until the caller
\* calls connect().
C15_CloseCancelsEverything ==
    /\ [](ClosedByCaller => Closed)
    /\ []((sub # NoSubscription /\ readyState = "disconnected") => ClosedByCaller)
    /\ [][(sub # NoSubscription /\ readyState = "disconnected"
             /\ readyState' # "disconnected") => op'.name = "connect"]_vars

\* close() has been called while a reconnect was scheduled
C15_Witness ==
    op = [name |-> "close", from |-> "scheduled-to-reconnect"] /\ Closed

\* C16: connect() on a disconnected subscription starts a connection
\* attempt, the subscription is connecting; connect() on a subscription that
\* is connecting or connected changes nothing: the state, the transport and
\* the timer are what they were, and no lifecycle callback is invoked.
C16_ConnectOnlyWhenDisconnected ==
    /\ []((op = [name |-> "connect", from |-> "disconnected"])
            => (readyState = "connecting" /\ transport = "opening" /\ ~timer))
    /\ [][(op'.name = "connect" /\ readyState \in {"connecting", "connected"})
            => (/\ readyState' = readyState
                /\ transport' = transport
                /\ timer' = timer
                /\ notified' = <<>>
                /\ UNCHANGED <<sub, frame, handled>>)]_vars

\* connect() has been called on a connected subscription
C16_Witness ==
    op = [name |-> "connect", from |-> "connected"] /\ transport = "open"

(***************************************************************************)
(* Properties of the order of deliveries (SpecRecorded)                    *)
(***************************************************************************)
\* every callback the caller may register is registered
EveryCallbackRegistered ==
    /\ sub.method = "stream"
          => sub.callbacks = {"onNewHistory", "onHeartbeatError", "onHeartbeatWarning"}
    /\ sub.method = "streamHeartbeatErrors"
          => sub.callbacks = {"onHeartbeatError", "onHeartbeatWarnings"}

\* the positions of the frames the callbacks were invoked for, in the order
\* of the invocations
InvokedFor == [i \in DOMAIN log.invoked |-> log.invoked[i].n]

IsRecognizedAt(i) ==
    log.arrived[i].json /\ log.arrived[i].event \in Recognized(sub.method)

RECURSIVE RecognizedUpTo(_)
\* the positions up to n of the frames of a kind the stream recognizes
RecognizedUpTo(n) ==
    IF n = 0 THEN <<>>
    ELSE RecognizedUpTo(n - 1) \o (IF IsRecognizedAt(n) THEN <<n>> ELSE <<>>)

\* each invocation is for a frame not older than the one of the invocation
\* before it
InArrivalOrder ==
    \A i, j \in DOMAIN InvokedFor : i < j => InvokedFor[i] <= InvokedFor[j]

\* C17: the data callbacks are invoked in the order the transport delivers
\* the frames, nothing being reordered or buffered: at any moment the frames
\* the callbacks have been invoked for are exactly the delivered frames of a
\* recognized kind, each once, in the order of their arrival.
C17_CallbacksFollowRecognizedFrames ==
    (log.recording /\ sub # NoSubscription /\ EveryCallbackRegistered)
        => (InArrivalOrder /\ InvokedFor = RecognizedUpTo(Len(log.arrived)))

(***************************************************************************)
(* Requests. Each method collects the query of its URL in a                *)
(* URLSearchParams: the query is the list of the (name, value) pairs       *)
(* appended, in order; a pair whose value is "" is a parameter without a   *)
(* value. Texts are strings; options are JavaScript values as above.       *)
(***************************************************************************)
\* key in x
Has(x, key) == x.t = "obj" /\ key \in DOMAIN x.v

\* d.getTime().toString()
getTime_toString(d) == IF d.t = "date" THEN ToString(d.v) ELSE "NaN"

MillisPerDay == 86400000

\* d.toISOString().split('T')[0], for an instant of January 1970
toISOString_day(d) ==
    LET day == 1 + (d.v \div MillisPerDay) IN
    "1970-01-" \o (IF day < 10 THEN "0" ELSE "") \o ToString(day)

RECURSIVE join(_, _)
\* list.join(sep), list being a list of strings
join(list, sep) ==
    IF list = <<>> THEN ""
    ELSE IF Len(list) = 1 THEN list[1].v
    ELSE list[1].v \o sep \o join(Tail(list), sep)

\* client.ts:22-24, part_003:33-35
serializeProps(props) == join(props.v, ",")

\* a serializeTimeFilter that forgets the end of the range
serializeTimeFilter_withoutTo(timeFilter) ==
    IF Has(timeFilter, "at") THEN getTime_toString(timeFilter.v.at)
    ELSE (IF Has(timeFilter, "from") THEN getTime_toString(timeFilter.v.from) ELSE "")
            \o "..."

\* client.ts:26-33, part_003:37-44
serializeTimeFilter(timeFilter) ==
    IF Has(timeFilter, "at") THEN getTime_toString(timeFilter.v.at)
    ELSE (IF Has(timeFilter, "from") THEN getTime_toString(timeFilter.v.from) ELSE "")
            \o "..."
            \o (IF Has(timeFilter, "to") THEN getTime_toString(timeFilter.v.to) ELSE "")

\* queryParams.append(name, value)
append(queryParams, name, value) ==
    Append(queryParams, [name |-> name, value |-> value])

\* if (opts?.key) queryParams.append(key, serializeProps(opts.key))
appendProps(queryParams, opts, key) ==
    IF Truthy(Get(opts, key))
    THEN append(queryParams, key, serializeProps(Get(opts, key)))
    ELSE queryParams

\* if (opts.time) queryParams.append('time', serializeTimeFilter(opts.time))
appendTime(queryParams, opts) ==
    IF Truthy(Get(opts, "time"))
    THEN append(queryParams, "time", serializeTimeFilter(Get(opts, "time")))
    ELSE queryParams

\* if (opts.limit) queryParams.append('limit', opts.limit.toString())
appendLimit(queryParams, opts) ==
    IF Truthy(Get(opts, "limit"))
    THEN append(queryParams, "limit", ToString(Get(opts, "limit").v))
    ELSE queryParams

\* if (opts.active !== undefined) queryParams.append('active', opts.active ? '1' : '0')
appendActive(queryParams, opts) ==
    IF Get(opts, "active") # Undefined
    THEN append(queryParams, "active", IF Truthy(Get(opts, "active")) THEN "1" ELSE "0")
    ELSE queryParams

\* if (opts.warnings) queryParams.append('warnings', '')
appendWarnings(queryParams, opts) ==
    IF Truthy(Get(opts, "warnings")) THEN append(queryParams, "warnings", "")
    ELSE queryParams

\* if (opts.key) queryParams.append(name, opts.key.join(','))
appendJoined(queryParams, opts, key, name) ==
    IF Truthy(Get(opts, key))
    THEN append(queryParams, name, join(Get(opts, key).v, ","))
    ELSE queryParams

\* if (opts[opt]) queryParams.append(opt, opts[opt].toString()), opts[opt]
\* being a string
appendText(queryParams, opts, opt) ==
    IF Truthy(Get(opts, opt)) THEN append(queryParams, opt, Get(opts, opt).v)
    ELSE queryParams

\* if (opts.date) queryParams.append('date', opts.date.toISOString().split('T')[0])
appendDate(queryParams, opts) ==
    IF Truthy(Get(opts, "date"))
    THEN append(queryParams, "date", toISOString_day(Get(opts, "date")))
    ELSE queryParams

\* client.ts:90-93 (getTrains), 117-120 (getTrain); part_003:125-128, 151-154,
\* 245-248, 262-265, 279-282, 382-385, 505-508, 538-541
props_query(opts) == appendProps(<<>>, opts, "props")

\* client.ts:146-160, part_003:182-196
getTrainHistory_query(opts) ==
    IF Truthy(opts)
    THEN appendProps(appendActive(appendLimit(appendTime(<<>>, opts), opts), opts),
                     opts, "props")
    ELSE <<>>

\* client.ts:177-188, part_003:211-222
getHeartbeatErrors_query(opts) ==
    IF Truthy(opts)
    THEN appendJoined(appendTime(appendWarnings(<<>>, opts), opts), opts, "apis", "apis")
    ELSE <<>>

\* client.ts:207-223, part_003:295-311
getTimetable_query(opts) ==
    IF Truthy(opts)
    THEN appendProps(
             appendProps(
                 appendDate(
                     appendText(appendText(appendText(appendText(<<>>,
                         opts, "trn"), opts, "station"), opts, "direction"),
                         opts, "emptyManeuvers"),
                     opts),
                 opts, "emptyManeuverProps"),
             opts, "tableProps")
    ELSE <<>>

\* client.ts:242-243: queryParams.append('type', opts?.type || "all")
stream_type(opts) ==
    append(<<>>, "type",
           IF Truthy(Get(opts, "type")) THEN Get(opts, "type").v ELSE "all")

\* client.ts:242-258
stream_query(opts) ==
    IF ~Truthy(opts) THEN stream_type(opts)
    ELSE IF Get(opts, "type") = Str("trains")
         THEN appendJoined(stream_type(opts), opts, "trns", "trains")
    ELSE IF Get(opts, "type") = Str("errors")
         THEN appendJoined(appendWarnings(stream_type(opts), opts), opts, "apis", "apis")
    ELSE stream_type(opts)

\* part_003:332-335 (streamHistory), 416-419 (streamTrainsHistory)
trainProps_query(opts) == appendProps(<<>>, opts, "trainProps")

\* part_003:457-463
streamHeartbeatErrors_query(cbs, opts) ==
    appendJoined(IF "onHeartbeatWarnings" \in cbs THEN append(<<>>, "warnings", "")
                 ELSE <<>>,
                 opts, "apis", "apis")

(***************************************************************************)
(* The options a caller may pass, as the types declare them                *)
(***************************************************************************)
\* instants, in milliseconds since the epoch
Instants == {0, 1500, MillisPerDay}

\* types.ts:29-33
TimeFilters ==
    {Obj([at |-> DateOf(t)]) : t \in Instants}
    \cup {Obj([from |-> DateOf(t)]) : t \in Instants}
    \cup {Obj([to |-> DateOf(t)]) : t \in Instants}
    \cup {Obj([from |-> DateOf(t), to |-> DateOf(u)]) : t, u \in Instants}

\* PropsFilter: a list of property paths
PropsFilters ==
    {List(<<>>), List(<<Str("status")>>), List(<<Str("status"), Str("lastChanged")>>)}

\* apis?: string[], trns?: string[]
ApiLists == {List(<<Str("timesAPI")>>), List(<<Str("timesAPI"), Str("trainStatusesAPI")>>)}
TrnLists == {List(<<Str("101")>>), List(<<Str("101"), Str("102")>>)}

Optional(S) == {Undefined} \cup S

\* FilterableProps
PropsOptions == Optional({Prune([props |-> p]) : p \in Optional(PropsFilters)})

\* types.ts:370-387
TrainHistoryOptions ==
    Optional({Prune([time |-> t, limit |-> l, active |-> a, props |-> p]) :
                 t \in Optional(TimeFilters), l \in Optional({Num(0), Num(5)}),
                 a \in Optional({Bool(TRUE), Bool(FALSE)}),
                 p \in Optional(PropsFilters)})

\* types.ts:414-424
HeartbeatErrorsOptions ==
    Optional({Prune([warnings |-> w, time |-> t, apis |-> a]) :
                 w \in Optional({Bool(TRUE), Bool(FALSE)}),
                 t \in Optional(TimeFilters), a \in Optional(ApiLists)})

\* types.ts:447-469
TimetableOptions ==
    Optional({Prune([date |-> d, trn |-> n, station |-> st, direction |-> dir,
                     emptyManeuvers |-> e, emptyManeuverProps |-> ep,
                     tableProps |-> tp]) :
                 d \in Optional({DateOf(1500), DateOf(MillisPerDay)}),
                 n \in Optional({Str("101")}), st \in Optional({Str("MTW")}),
                 dir \in Optional({Str("in")}), e \in Optional({Str("none")}),
                 ep \in Optional({List(<<Str("trn")>>)}),
                 tp \in Optional({List(<<Str("arrivalTime")>>)})})

\* part_002:413-444: StreamAllOptions | StreamTrainsOptions | StreamErrorsOptions;
\* the first two are FilterableProps (part_002:12-15)
StreamOptions ==
    Optional({Prune([props |-> p]) : p \in Optional(PropsFilters)}
             \cup {Prune([type |-> Str("trains"), trns |-> n, props |-> p]) :
                      n \in Optional(TrnLists), p \in Optional(PropsFilters)}
             \cup {Prune([type |-> Str("errors"), warnings |-> w, apis |-> a]) :
                      w \in Optional({Bool(TRUE), Bool(FALSE)}),
                      a \in Optional(ApiLists)})

\* types.ts:570-574 (HistoryStreamOptions)
TrainPropsOptions ==
    Optional({Prune([trainProps |-> p]) : p \in Optional(PropsFilters)})

\* types.ts:579-585
TrainsHistoryStreamOptions ==
    Optional({Prune([trns |-> n, trainProps |-> p]) :
                 n \in Optional(TrnLists), p \in Optional(PropsFilters)})

\* types.ts:587-593
HeartbeatErrorsStreamOptions ==
    Optional({Prune([apis |-> a]) : a \in Optional(ApiLists)})

(***************************************************************************)
(* Specification of the requests: a client of either revision builds the   *)
(* query of one request                                                    *)
(***************************************************************************)
InitQuery ==
    /\ NormIdle
    /\ rev \in Revisions
    /\ hpc = "idle"
    /\ method = "none"
    /\ response = NoResponse
    /\ outcome = Pending
    /\ StreamIdle
    /\ QueryIdle

\* the method m of revision r is called with opts and builds query
Build(r, m, cbs, opts, query) ==
    /\ rev = r
    /\ req = NoRequest
    /\ req' = [method |-> m, opts |-> opts, callbacks |-> cbs, query |-> query]
    /\ UNCHANGED normVars
    /\ UNCHANGED httpVars
    /\ UNCHANGED streamVars

\* client.ts:89-93, part_003:124-128
GetTrainsQuery == \E o \in PropsOptions : Build(rev, "getTrains", {}, o, props_query(o))

\* client.ts:116-120, part_003:150-154
GetTrainQuery == \E o \in PropsOptions : Build(rev, "getTrain", {}, o, props_query(o))

\* client.ts:145-161, part_003:181-197
GetTrainHistoryQuery ==
    \E o \in TrainHistoryOptions :
        Build(rev, "getTrainHistory", {}, o, getTrainHistory_query(o))

\* client.ts:176-189, part_003:210-223
GetHeartbeatErrorsQuery ==
    \E o \in HeartbeatErrorsOptions :
        Build(rev, "getHeartbeatErrors", {}, o, getHeartbeatErrors_query(o))

\* client.ts:206-224, part_003:294-312
GetTimetableQuery ==
    \E o \in TimetableOptions : Build(rev, "getTimetable", {}, o, getTimetable_query(o))

\* client.ts:228-258
StreamQuery ==
    \E o \in StreamOptions : Build("client.ts", "stream", {}, o, stream_query(o))

\* part_003:244-249, 261-266, 278-283
GetDueTimesQuery ==
    \E m \in {"getDueTimes", "getPlatformDueTimes", "getStationDueTimes"},
       o \in PropsOptions :
        Build("part_003", m, {}, o, props_query(o))

\* part_003:321-335
StreamHistoryQuery ==
    \E o \in TrainPropsOptions :
        Build("part_003", "streamHistory", {}, o, trainProps_query(o))

\* part_003:407-419
StreamTrainsHistoryQuery ==
    \E o \in TrainsHistoryStreamOptions :
        Build("part_003", "streamTrainsHistory", {}, o, trainProps_query(o))

\* part_003:372-385, 495-508, 528-541
StreamPropsQuery ==
    \E m \in {"streamNewTrainHistory", "streamStationDueTimes",
              "streamPlatformDueTimes"},
       o \in PropsOptions :
        Build("part_003", m, {}, o, props_query(o))

\* part_003:447-463
StreamHeartbeatErrorsQuery ==
    \E o \in HeartbeatErrorsStreamOptions,
       cbs \in {{"onHeartbeatError"}, {"onHeartbeatError", "onHeartbeatWarnings"}} :
        Build("part_003", "streamHeartbeatErrors", cbs, o,
              streamHeartbeatErrors_query(cbs, o))

NextQuery ==
    \/ GetTrainsQuery
    \/ GetTrainQuery
    \/ GetTrainHistoryQuery
    \/ GetHeartbeatErrorsQuery
    \/ GetTimetableQuery
    \/ StreamQuery
    \/ GetDueTimesQuery
    \/ StreamHistoryQuery
    \/ StreamTrainsHistoryQuery
    \/ StreamPropsQuery
    \/ StreamHeartbeatErrorsQuery

SpecQuery == InitQuery /\ [][NextQuery]_vars

(***************************************************************************)
(* Properties of the requests (SpecQuery)                                  *)
(***************************************************************************)
Built == req # NoRequest

\* the values of the parameters called name, in the order they were appended
ValuesOf(name) ==
    LET at == SelectSeq([i \in DOMAIN req.query |-> i],
                        LAMBDA i : req.query[i].name = name)
    IN [j \in DOMAIN at |-> req.query[at[j]].value]

\* the options of a method that are booleans (types.ts:384, 416;
\* part_002:434-435)
BooleanOptions(m) ==
    CASE m = "getTrainHistory" -> {"active"}
      [] m \in {"getHeartbeatErrors", "stream"} -> {"warnings"}
      [] OTHER -> {}

\* C18: a boolean option of an endpoint is serialized as a parameter that is
\* present without a value when the option is true, and is left out of the
\* query when the option is false or absent.
C18_BooleanOptionIsPresenceFlag ==
    Built => \A b \in BooleanOptions(req.method) :
                 ValuesOf(b) = IF Get(req.opts, b) = Bool(TRUE) THEN <<"">> ELSE <<>>

\* the option a parameter of the query of method m stands for
OptionOf(m, name) == IF m = "stream" /\ name = "trains" THEN "trns" ELSE name

\* the caller specified the option: it passed a value for it, or, for the
\* warnings of streamHeartbeatErrors, registered the callback that asks for them
Specified(option) ==
    \/ Get(req.opts, option) # Undefined
    \/ /\ req.method = "streamHeartbeatErrors"
       /\ option = "warnings"
       /\ "onHeartbeatWarnings" \in req.callbacks

\* C19: for every endpoint and stream builder, the query holds no parameter
\* for an option the caller did not specify: neither with a value nor with
\* an empty one.
C19_UnspecifiedOptionIsOmitted ==
    Built => \A i \in DOMAIN req.query :
                 Specified(OptionOf(req.method, req.query[i].name))

\* the decimal digits of the instants
Millis == (0 :> "0") @@ (1500 :> "1500") @@ (MillisPerDay :> "86400000")

HasDots(text) == \E i \in 1..(Len(text) - 2) : SubSeq(text, i, i + 2) = "..."

\* what the time parameter is to be for the time filter tf
TimeEncodingIs(tf, text) ==
    /\ Has(tf, "at") => text = Millis[tf.v.at.v] /\ ~HasDots(text)
    /\ (Has(tf, "from") /\ Has(tf, "to"))
          => text = Millis[tf.v.from.v] \o "..." \o Millis[tf.v.to.v]
    /\ (Has(tf, "from") /\ ~Has(tf, "to")) => text = Millis[tf.v.from.v] \o "..."
    /\ (Has(tf, "to") /\ ~Has(tf, "from")) => text = "..." \o Millis[tf.v.to.v]

\* C20: serializeTimeFilter encodes {at: T} as the milliseconds of T with no
\* "...", {from: T1, to: T2} as the milliseconds of T1, "...", the
\* milliseconds of T2, {from: T1} as the milliseconds of T1 followed by
\* "...", and {to: T2} as "..." followed by the milliseconds of T2; this is
\* the value of the time parameter of every request given a time filter.
C20_TimeFilterEncoding ==
    (Built /\ Has(req.opts, "time"))
        => /\ Len(ValuesOf("time")) = 1
           /\ TimeEncodingIs(req.opts.v.time, ValuesOf("time")[1])

\* a request whose time filter has an end only
C20_Witness ==
    /\ req.method = "getHeartbeatErrors"
    /\ Has(req.opts, "time")
    /\ req.opts.v.time = Obj([to |-> DateOf(1500)])
    /\ ValuesOf("time") = <<"...1500">>

(***************************************************************************)
(* Reading a query back: what a server that splits the lists on "," and    *)
(* reads time as "<ms>" or "<from>...<to>" makes of the values             *)
(***************************************************************************)
\* the position of the first sep in text at or after i, 0 when there is none
RECURSIVE IndexFrom(_, _, _)
IndexFrom(text, sep, i) ==
    IF i + Len(sep) - 1 > Len(text) THEN 0
    ELSE IF SubSeq(text, i, i + Len(sep) - 1) = sep THEN i
    ELSE IndexFrom(text, sep, i + 1)

RECURSIVE SplitOn(_, _)
\* text.split(sep): the pieces between the separators; "" has one piece, ""
SplitOn(text, sep) ==
    LET at == IndexFrom(text, sep, 1) IN
    IF at = 0 THEN <<text>>
    ELSE <<SubSeq(text, 1, at - 1)>>
            \o SplitOn(SubSeq(text, at + Len(sep), Len(text)), sep)

DigitValue ==
    [c \in {"0", "1", "2", "3", "4", "5", "6", "7", "8", "9"} |->
        CASE c = "0" -> 0 [] c = "1" -> 1 [] c = "2" -> 2 [] c = "3" -> 3
          [] c = "4" -> 4 [] c = "5" -> 5 [] c = "6" -> 6 [] c = "7" -> 7
          [] c = "8" -> 8 [] c = "9" -> 9]

RECURSIVE DecimalValue(_)
\* the number a string of decimal digits denotes
DecimalValue(text) ==
    IF text = "" THEN 0
    ELSE 10 * DecimalValue(SubSeq(text, 1, Len(text) - 1))
            + DigitValue[SubSeq(text, Len(text), Len(text))]

\* the Date a side of a range denotes; an empty side is no Date
SideRead(text) == IF text = "" THEN Undefined ELSE DateOf(DecimalValue(text))

\* the time filter a time parameter denotes
TimeFilterRead(text) ==
    LET at == IndexFrom(text, "...", 1) IN
    IF at = 0 THEN Obj([at |-> DateOf(DecimalValue(text))])
    ELSE Prune([from |-> SideRead(SubSeq(text, 1, at - 1)),
                to |-> SideRead(SubSeq(text, at + 3, Len(text)))])

\* the list of strings a comma-joined parameter denotes
ListRead(text) ==
    LET pieces == SplitOn(text, ",") IN List([i \in DOMAIN pieces |-> Str(pieces[i])])

\* the options that are lists serialized by join(',')
ListOptions ==
    {"props", "trainProps", "emptyManeuverProps", "tableProps", "apis", "trns"}

\* the parameter the option of method m is sent as
ParameterOf(m, option) == IF m = "stream" /\ option = "trns" THEN "trains" ELSE option

\* C21: for every valid option set, reading the query back recovers the
\* options: every list option that was given (paths and elements hold no
\* ","; any length, the empty list included) is the list its parameter
\* splits into, and the time filter given is the shape and the instants its
\* time parameter reads as.
C21_QueryReadsBackAsTheOptions ==
    Built =>
        /\ \A k \in ListOptions :
              Has(req.opts, k)
                 => /\ Len(ValuesOf(ParameterOf(req.method, k))) = 1
                    /\ ListRead(ValuesOf(ParameterOf(req.method, k))[1]) = req.opts.v[k]
        /\ Has(req.opts, "time")
              => /\ Len(ValuesOf("time")) = 1
                 /\ TimeFilterRead(ValuesOf("time")[1]) = req.opts.v.time

(***************************************************************************)
(* Further properties of the normalizers (SpecNorm)                        *)
(***************************************************************************)
\* the normalizer called name run on x
Normalized(name, x) ==
    CASE name = "deserializeCollatedTrain" -> deserializeCollatedTrain(x)
      [] name = "deserializeCollatedTrain_p3" -> deserializeCollatedTrain_p3(x)
      [] name = "deserializeHistoryEntry" -> deserializeHistoryEntry(x)
      [] name = "deserializeHistoryEntry_p3" -> deserializeHistoryEntry_p3(x)
      [] name = "deserializeTrainHistorySummary" -> deserializeTrainHistorySummary(x)
      [] name = "deserializeDueTimes" -> deserializeDueTimes(x)

RECURSIVE HoldsDate(_)
\* some value inside x is a Date
HoldsDate(x) ==
    CASE x.t = "obj" -> \E k \in DOMAIN x.v : HoldsDate(x.v[k])
      [] x.t = "list" -> \E i \in 1..Len(x.v) : HoldsDate(x.v[i])
      [] OTHER -> x.t \in {"date", "invalid"}

\* C22: normalization is idempotent: the value a normalizer returned, fed to
\* the same normalizer again, comes back identical (the instants already
\* converted are the same instants).
C22_NormalizationIsIdempotent ==
    (called /\ ret.ok) => Normalized(fn, ret.val) = ret

\* a normalizer has returned a value in which it converted a time
C22_Witness ==
    /\ called
    /\ ret.ok
    /\ ret.val # raw
    /\ HoldsDate(ret.val)
    /\ Normalized(fn, ret.val) = ret

\* C23: the normalizers never mutate the value they are given: after the
\* call the raw decoded input, with every nested record and list, is as it
\* was, and the conversions are in the returned value only. The statements
\* of the normalizer, run in a memory where the argument is one object and
\* every write goes through a reference, leave the argument's object as it
\* was and return the value the call returns.
C23_InputIsNotMutated ==
    [][(~called /\ called') => /\ raw' = raw
                                /\ ret' = Execution(fn, raw).ret]_vars

\* a normalizer has returned converted times and its input holds none
C23_Witness ==
    /\ called
    /\ ret.ok
    /\ HoldsDate(ret.val)
    /\ ~HoldsDate(raw)

HistoryEntryNormalizers == {"deserializeHistoryEntry", "deserializeHistoryEntry_p3"}

\* an entry of a train that was not active: active is false, a date is on
\* the wire, there is no status
InactiveEntry(x) ==
    /\ Get(x, "active") = Bool(FALSE)
    /\ IsWireTime(Get(x, "date"))
    /\ ~Has(x, "status")

\* C24: normalizing a history entry with active = false and no status gives
\* a record with active = false, date the instant the wire value denotes and
\* no status: the keys of the result are those of the entry.
C24_InactiveEntryKeepsItsShape ==
    (called /\ fn \in HistoryEntryNormalizers /\ InactiveEntry(raw))
        => /\ ret.ok
           /\ DOMAIN ret.val.v = {"active", "date"}
           /\ ret.val.v.active = Bool(FALSE)
           /\ ret.val.v.date = DateOf(raw.v.date.v)

\* {"active": false, "date": <ISO text of instant 1>} has been normalized
C24_Witness ==
    /\ called
    /\ fn = "deserializeHistoryEntry"
    /\ raw = Obj([active |-> Bool(FALSE), date |-> Iso(1)])
    /\ ret = Ok(Obj([active |-> Bool(FALSE), date |-> DateOf(1)]))

CollatedNormalizers == {"deserializeCollatedTrain", "deserializeCollatedTrain_p3"}

\* a collated status in which only trainStatusesAPI is present
OnlyTrainStatusesAPI(x) == x.t = "obj" /\ DOMAIN x.v = {"trainStatusesAPI"}

\* C25: a collated status in which only trainStatusesAPI is present, alone
\* or inside an active history entry, is normalized to the same status:
\* trainStatusesAPI with destination and lastSeen as they were, timesAPI
\* still absent, no other arm entered (nothing thrown, nothing added).
C25_TrainStatusesOnlyArm ==
    /\ (called /\ fn \in CollatedNormalizers /\ OnlyTrainStatusesAPI(raw))
          => ret = Ok(raw)
    /\ (called /\ fn \in HistoryEntryNormalizers /\ Get(raw, "active") = Bool(TRUE)
           /\ OnlyTrainStatusesAPI(Get(raw, "status")))
          => /\ ret.ok
             /\ DOMAIN ret.val.v = DOMAIN raw.v
             /\ ret.val.v.status = Obj([trainStatusesAPI |-> TrainStatusesAPIData])

\* the active entry {"active": true, "date": <ms 2>, "status":
\* {"trainStatusesAPI": {...}}} has been normalized
C25_Witness ==
    /\ called
    /\ fn = "deserializeHistoryEntry"
    /\ raw = Obj([active |-> Bool(TRUE), date |-> Num(2),
                  status |-> Obj([trainStatusesAPI |-> TrainStatusesAPIData])])
    /\ ret.ok
    /\ ret.val.v.date = DateOf(2)
    /\ ~Has(ret.val.v.status, "timesAPI")

(***************************************************************************)
(* Further properties of the facade (SpecHttp)                             *)
(***************************************************************************)
\* firstEntry and lastEntry of a history summary are instants
SummaryConverted(x) ==
    IsInstant(Get(x, "firstEntry")) /\ IsInstant(Get(x, "lastEntry"))

\* C26: in the value getHistorySummary returns for a successful response,
\* lastChecked is an instant and every history summary (each trains[trn],
\* heartbeatErrors, heartbeatWarnings) has firstEntry and lastEntry as
\* instants.
C26_EverySummaryIsConverted ==
    (hpc = "settled" /\ method = "getHistorySummary" /\ Decoded(response)
        /\ Success(response.status))
        => /\ outcome.state = "fulfilled"
           /\ IsInstant(Get(outcome.val, "lastChecked"))
           /\ \A k \in DOMAIN Get(outcome.val, "trains").v :
                  SummaryConverted(outcome.val.v.trains.v[k])
           /\ SummaryConverted(Get(outcome.val, "heartbeatErrors"))
           /\ SummaryConverted(Get(outcome.val, "heartbeatWarnings"))

(***************************************************************************)
(* The utilities of index.ts (part_004): parseLastSeen,                    *)
(* parseTimesAPILocation and the two versions of compareTimes. They are    *)
(* pure functions of their arguments.                                      *)
(***************************************************************************)
Digits == {"0", "1", "2", "3", "4", "5", "6", "7", "8", "9"}

\* the class [a-zA-Z' ]
StationCharacters ==
    {"a", "b", "c", "d", "e", "f", "g", "h", "i", "j", "k", "l", "m",
     "n", "o", "p", "q", "r", "s", "t", "u", "v", "w", "x", "y", "z",
     "A", "B", "C", "D", "E", "F", "G", "H", "I", "J", "K", "L", "M",
     "N", "O", "P", "Q", "R", "S", "T", "U", "V", "W", "X", "Y", "Z",
     "'", " "}

\* the alternation Approaching|Arrived|Ready to start|Departed
ActiveTrainState == {"Approaching", "Arrived", "Ready to start", "Departed"}

\* the class [1-4]
PlatformNumber == {"1", "2", "3", "4"}

CharAt(text, i) == SubSeq(text, i, i)

StartsWith(text, prefix) ==
    Len(text) >= Len(prefix) /\ SubSeq(text, 1, Len(prefix)) = prefix

RECURSIVE AllIn(_, _)
\* class*: every character of text is in the class
AllIn(text, class) ==
    \/ text = ""
    \/ CharAt(text, 1) \in class /\ AllIn(SubSeq(text, 2, Len(text)), class)

\* [0-9][0-9]
IsHours_anyTwoDigits(text) ==
    /\ Len(text) = 2
    /\ CharAt(text, 1) \in Digits
    /\ CharAt(text, 2) \in Digits

\* [01][0-9]|2[0-3]
IsHours(text) ==
    /\ Len(text) = 2
    /\ \/ CharAt(text, 1) \in {"0", "1"} /\ CharAt(text, 2) \in Digits
       \/ CharAt(text, 1) = "2" /\ CharAt(text, 2) \in {"0", "1", "2", "3"}

\* [0-5][0-9]
IsMinutes(text) ==
    /\ Len(text) = 2
    /\ CharAt(text, 1) \in {"0", "1", "2", "3", "4", "5"}
    /\ CharAt(text, 2) \in Digits

\* what follows the station in LAST_SEEN_REGEX, anchored at the end of the
\* text: ' platform [1-4] at HH:MM$' is 20 characters, the station ends at to
LastSeenTail(text, to) ==
    /\ SubSeq(text, to + 1, to + 10) = " platform "
    /\ CharAt(text, to + 11) \in PlatformNumber
    /\ SubSeq(text, to + 12, to + 15) = " at "
    /\ IsHours(SubSeq(text, to + 16, to + 17))
    /\ CharAt(text, to + 18) = ":"
    /\ IsMinutes(SubSeq(text, to + 19, to + 20))

\* the groups of the match of LAST_SEEN_REGEX that starts with state, Null
\* when there is none; the pattern is anchored at both ends and everything
\* but the station has a fixed length, so the station is what lies between
LastSeenGroups(text, state) ==
    IF /\ Len(text) >= Len(state) + 21
       /\ AllIn(SubSeq(text, Len(state) + 2, Len(text) - 20), StationCharacters)
       /\ LastSeenTail(text, Len(text) - 20)
    THEN Obj([state |-> Str(state),
              station |-> Str(SubSeq(text, Len(state) + 2, Len(text) - 20)),
              platform |-> Str(CharAt(text, Len(text) - 9)),
              hours |-> Str(SubSeq(text, Len(text) - 4, Len(text) - 3)),
              minutes |-> Str(SubSeq(text, Len(text) - 1, Len(text)))])
    ELSE Null

\* lastSeen.match(LAST_SEEN_REGEX)?.groups; no state is the start of another
LAST_SEEN_REGEX(text) ==
    IF \E state \in ActiveTrainState : StartsWith(text, state \o " ")
    THEN LastSeenGroups(text,
             CHOOSE state \in ActiveTrainState : StartsWith(text, state \o " "))
    ELSE Null

\* location.match(TIMES_API_LOCATION_REGEX)?.groups: ' Platform [1-4]$' is
\* 11 characters
TIMES_API_LOCATION_REGEX(text) ==
    IF /\ Len(text) >= 11
       /\ AllIn(SubSeq(text, 1, Len(text) - 11), StationCharacters)
       /\ SubSeq(text, Len(text) - 10, Len(text) - 1) = " Platform "
       /\ CharAt(text, Len(text)) \in PlatformNumber
    THEN Obj([station |-> Str(SubSeq(text, 1, Len(text) - 11)),
              platform |-> Str(CharAt(text, Len(text)))])
    ELSE Null

\* +text, for a text of decimal digits (the empty text is 0)
ToNumber(text) == Num(DecimalValue(text.v))

\* the object parseLastSeen builds of the groups
ParsedLastSeen(groups) ==
    Obj([state |-> groups.v.state,
         station |-> groups.v.station,
         platform |-> ToNumber(groups.v.platform),
         hours |-> ToNumber(groups.v.hours),
         minutes |-> ToNumber(groups.v.minutes)])

parseLastSeen(lastSeen) ==
    IF LAST_SEEN_REGEX(lastSeen.v) # Null
    THEN Ok(ParsedLastSeen(LAST_SEEN_REGEX(lastSeen.v)))
    ELSE Ok(Undefined)

\* the object parseTimesAPILocation builds of the groups
ParsedTimesAPILocation(groups) ==
    Obj([station |-> groups.v.station,
         platform |-> ToNumber(groups.v.platform)])

parseTimesAPILocation(location) ==
    IF TIMES_API_LOCATION_REGEX(location.v) # Null
    THEN Ok(ParsedTimesAPILocation(TIMES_API_LOCATION_REGEX(location.v)))
    ELSE Ok(Undefined)

\* a % n of JavaScript: the remainder has the sign of a
Remainder(a, n) == IF a >= 0 THEN a % n ELSE -((-a) % n)

\* (time - newDaySeconds) % 86400, without the coercion to a positive value
normalizeTime_uncoerced(time, newDaySeconds) ==
    Remainder(time - newDaySeconds, 86400)

\* normalizeTime of the seconds version; newDaySeconds is in its closure
normalizeTime(time, newDaySeconds) ==
    Remainder(Remainder(time - newDaySeconds, 86400) + 86400, 86400)

\* the seconds version
compareTimes(a, b, newDayHour) ==
    Ok(Num(normalizeTime(a.v, newDayHour.v * 3600)
            - normalizeTime(b.v, newDayHour.v * 3600)))

\* text.slice(start, end)
slice(text, start, end) ==
    SubSeq(text, start + 1, IF end < Len(text) THEN end ELSE Len(text))

\* let aHour = +a.slice(0, 2); if (aHour < newDayHour) aHour += 24
aHour(a, newDayHour) ==
    IF ToNumber(Str(slice(a, 0, 2))).v < newDayHour
    THEN ToNumber(Str(slice(a, 0, 2))).v + 24
    ELSE ToNumber(Str(slice(a, 0, 2))).v

\* (+a.slice(4) || 0)
aSeconds(a) ==
    IF Truthy(ToNumber(Str(slice(a, 4, Len(a)))))
    THEN ToNumber(Str(slice(a, 4, Len(a)))).v
    ELSE 0

\* aHour * 60 * 60 + +a.slice(2, 4) * 60 + (+a.slice(4) || 0)
aTime(a, newDayHour) ==
    aHour(a, newDayHour) * 60 * 60
        + ToNumber(Str(slice(a, 2, 4))).v * 60
        + aSeconds(a)

\* the version that takes HHMMSS or HHMM texts
compareTimes_HHMMSS(a, b, newDayHour) ==
    Ok(Num(aTime(a.v, newDayHour.v) - aTime(b.v, newDayHour.v)))

(***************************************************************************)
(* The arguments the utilities are applied to                              *)
(***************************************************************************)
TwoDigits(n) == (IF n < 10 THEN "0" ELSE "") \o ToString(n)

\* a last seen text put together of its parts
LastSeenText(state, station, platform, hours, minutes) ==
    state \o " " \o station \o " platform " \o platform \o " at "
        \o hours \o ":" \o minutes

\* a times API location put together of its parts
LocationText(station, word, platform) == station \o " " \o word \o " " \o platform

StateTexts == ActiveTrainState \cup {"Left", "arrived"}
StationTexts == {"Monument", "St Peter's", "", "St. James"}
PlatformTexts == {"0", "1", "4", "5"}
HoursTexts == {"00", "09", "23", "24", "9"}
MinutesTexts == {"00", "59", "60", "5"}

LastSeenTexts ==
    {LastSeenText(s, st, p, h, m) :
        s \in StateTexts, st \in StationTexts, p \in PlatformTexts,
        h \in HoursTexts, m \in MinutesTexts}

LocationTexts ==
    {LocationText(st, w, p) :
        st \in StationTexts, w \in {"Platform", "platform"},
        p \in PlatformTexts \cup {"2", "3", "", "12"}}

\* texts that lack a part or carry more than the parts
OtherTexts ==
    {"", "Arrived", "Monument",
     "Arrived Monument platform 1",
     "Arrived platform 1 at 12:34",
     "Arrived Monument platform 1 at 12:34 ",
     " Arrived Monument platform 1 at 12:34",
     "Arrived Monument Platform 1 at 12:34",
     "Arrived Monument platform 1 at 12.34",
     "Arrived Monument platform 1 at 12:34:56",
     "Platform 1", " Platform 1",
     "Monument Platform 1 ", "MonumentPlatform 1",
     "Monument Platform 1 at 12:34"}

Texts == {Str(text) : text \in LastSeenTexts \cup LocationTexts \cup OtherTexts}

\* times of day, in seconds since midnight
TimesOfDay == {0, 59, 3600, 9000, 43200, 43261, 82800, 86399}

HHMM(t) == TwoDigits(t \div 3600) \o TwoDigits((t % 3600) \div 60)
HHMMSS(t) == HHMM(t) \o TwoDigits(t % 60)

TimeTexts ==
    {HHMMSS(t) : t \in TimesOfDay} \cup {HHMM(t) : t \in {u \in TimesOfDay : u % 60 = 0}}

NewDayHours == 0..23

IndexFns == {"parseLastSeen", "parseTimesAPILocation", "compareTimes", "compareTimes_HHMMSS"}

ArgumentsOf(f) ==
    CASE f \in {"parseLastSeen", "parseTimesAPILocation"} ->
            {List(<<text>>) : text \in Texts}
      [] f = "compareTimes" ->
            {List(<<Num(a), Num(b), Num(h)>>) :
                a \in TimesOfDay, b \in TimesOfDay, h \in NewDayHours}
      [] f = "compareTimes_HHMMSS" ->
            {List(<<Str(a), Str(b), Num(h)>>) :
                a \in TimeTexts, b \in TimeTexts, h \in NewDayHours}

(***************************************************************************)
(* Specification of the utilities: Init draws the function and its         *)
(* arguments, one action applies it.                                       *)
(***************************************************************************)
InitIndex ==
    /\ fn \in IndexFns
    /\ raw \in ArgumentsOf(fn)
    /\ called = FALSE
    /\ ret = NotRun
    /\ HttpIdle
    /\ StreamIdle
    /\ QueryIdle

ParseLastSeen == Apply("parseLastSeen", parseLastSeen(raw.v[1]),
          Unwritten(raw, parseLastSeen(raw.v[1])))

ParseTimesAPILocation ==
    Apply("parseTimesAPILocation", parseTimesAPILocation(raw.v[1]),
          Unwritten(raw, parseTimesAPILocation(raw.v[1])))

CompareTimes == Apply("compareTimes", compareTimes(raw.v[1], raw.v[2], raw.v[3]),
          Unwritten(raw, compareTimes(raw.v[1], raw.v[2], raw.v[3])))

CompareTimes_HHMMSS ==
    Apply("compareTimes_HHMMSS", compareTimes_HHMMSS(raw.v[1], raw.v[2], raw.v[3]),
          Unwritten(raw, compareTimes_HHMMSS(raw.v[1], raw.v[2], raw.v[3])))

NextIndex ==
    \/ ParseLastSeen
    \/ ParseTimesAPILocation
    \/ CompareTimes
    \/ CompareTimes_HHMMSS

SpecIndex == InitIndex /\ [][NextIndex]_vars

(***************************************************************************)
(* Properties of the utilities (SpecIndex)                                 *)
(***************************************************************************)
\* the station names made of letters, apostrophes and spaces only
StationNames == {st \in StationTexts : AllIn(st, StationCharacters)}

\* the records a text denotes when read as
\* '<state> <station> platform <p> at <HH>:<MM>' with the station in stations
LastSeenReadings(text, stations) ==
    UNION {
        {Obj([state |-> Str(q[1]), station |-> Str(q[2]), platform |-> Num(q[3]),
              hours |-> Num(t[1]), minutes |-> Num(t[2])]) :
            t \in {u \in (0..23) \X (0..59) :
                     text = LastSeenText(q[1], q[2], ToString(q[3]),
                                         TwoDigits(u[1]), TwoDigits(u[2]))}} :
        q \in {r \in ActiveTrainState \X stations \X (1..4) :
                 StartsWith(text, r[1] \o " " \o r[2] \o " platform "
                                    \o ToString(r[3]) \o " at ")}}

\* the records a text denotes when read as '<station> Platform <p>'
LocationReadings(text, stations) ==
    {Obj([station |-> Str(q[1]), platform |-> Num(q[2])]) :
        q \in {r \in stations \X (1..4) :
                 text = LocationText(r[1], "Platform", ToString(r[2]))}}

\* the parser returned a record of readings, or nothing when there is none
ReturnsReading(readings) ==
    /\ ret.ok
    /\ IF readings = {} THEN ret.val = Undefined ELSE ret.val \in readings

\* C27 (as stated): parseLastSeen returns the record of the state, station,
\* platform, hours and minutes exactly when the text has the form
\* '<state> <station> platform <p> at <HH>:<MM>', whatever the station is,
\* and nothing otherwise; parseTimesAPILocation likewise for
\* '<station> Platform <p>'.
C27_ParsesExactlyTheForm ==
    /\ (called /\ fn = "parseLastSeen")
           => ReturnsReading(LastSeenReadings(raw.v[1].v, StationTexts))
    /\ (called /\ fn = "parseTimesAPILocation")
           => ReturnsReading(LocationReadings(raw.v[1].v, StationTexts))

\* C27 (amended): the same, for a station made of letters, apostrophes and
\* spaces; a text whose station holds any other character yields nothing.
C27_ParsesExactlyTheFormOverStationNames ==
    /\ (called /\ fn = "parseLastSeen")
           => ReturnsReading(LastSeenReadings(raw.v[1].v, StationNames))
    /\ (called /\ fn = "parseTimesAPILocation")
           => ReturnsReading(LocationReadings(raw.v[1].v, StationNames))

C27_Witness ==
    /\ called
    /\ fn = "parseLastSeen"
    /\ raw = List(<<Str("Ready to start St Peter's platform 4 at 23:59")>>)
    /\ ret = Ok(Obj([state |-> Str("Ready to start"), station |-> Str("St Peter's"),
                     platform |-> Num(4), hours |-> Num(23), minutes |-> Num(59)]))

\* the number of seconds from newDayHour o'clock forward to the time of
\* day t, both in the same or t in the next calendar day
pos(t, newDayHour) ==
    IF t >= newDayHour * 3600
    THEN t - newDayHour * 3600
    ELSE (86400 - newDayHour * 3600) + t

\* the time of day, in seconds since midnight, an argument denotes
TimeOfDay(x) ==
    IF x.t = "num" THEN x.v
    ELSE CHOOSE t \in TimesOfDay : \/ x.v = HHMMSS(t)
                                   \/ t % 60 = 0 /\ x.v = HHMM(t)

\* C28: for all times of day a, b and newDayHour in 0..23, compareTimes (the
\* seconds version and the HHMMSS version alike) returns pos(a) - pos(b),
\* pos(t) being the seconds from newDayHour forward to t; so a time before
\* newDayHour compares as later than any time at or after it, and the
\* HHMMSS version returns what the seconds version returns for the same
\* times of day.
C28_CompareTimesIsTheDifferenceInsideTheTimetableDay ==
    (called /\ fn \in {"compareTimes", "compareTimes_HHMMSS"}) =>
        LET a == TimeOfDay(raw.v[1])
            b == TimeOfDay(raw.v[2])
            newDayHour == raw.v[3].v
        IN  /\ ret = Ok(Num(pos(a, newDayHour) - pos(b, newDayHour)))
            /\ (a < newDayHour * 3600 /\ b >= newDayHour * 3600) => ret.val.v > 0
            /\ ret = compareTimes(Num(a), Num(b), Num(newDayHour))

\* 00:00:00 is an hour later than 23:00:00 in the day that starts at 3
C28_Witness ==
    /\ called
    /\ fn = "compareTimes"
    /\ raw = List(<<Num(0), Num(82800), Num(3)>>)
    /\ ret = Ok(Num(3600))

(***************************************************************************)
(* Further properties of the requests (SpecQuery)                          *)
(***************************************************************************)
\* C29: the query of getTrainHistory holds a limit parameter with the
\* decimal value of opts.limit if and only if opts.limit was given, whatever
\* integer it is, 0 included; an active parameter if and only if opts.active
\* was given; a time and a props parameter if and only if those options
\* were given.
C29_GetTrainHistorySerializesEveryOption ==
    (Built /\ req.method = "getTrainHistory") =>
        /\ ValuesOf("limit") = IF Has(req.opts, "limit")
                               THEN <<ToString(req.opts.v.limit.v)>> ELSE <<>>
        /\ \A option \in {"active", "time", "props"} :
               Len(ValuesOf(option)) = IF Has(req.opts, option) THEN 1 ELSE 0


(***************************************************************************)
(* Further properties of the streams (SpecStream)                          *)
(***************************************************************************)
\* the query of streamHeartbeatErrors holds the valueless parameter warnings
AsksForWarnings(query) ==
    \E i \in DOMAIN query : query[i] = [name |-> "warnings", value |-> ""]

\* C30: streamHeartbeatErrors puts the valueless warnings parameter in its
\* query if and only if the caller registered onHeartbeatWarnings; with no
\* such callback a heartbeat-warnings frame invokes no callback, raises no
\* error and is reported by one warning, and a heartbeat-error frame is
\* handed to onHeartbeatError.
C30_WarningsAreAskedForAndDeliveredOnlyWithTheCallback ==
    sub.method = "streamHeartbeatErrors" =>
        /\ \A o \in HeartbeatErrorsStreamOptions :
               AsksForWarnings(streamHeartbeatErrors_query(sub.callbacks, o))
                   <=> "onHeartbeatWarnings" \in sub.callbacks
        /\ (Delivered /\ "onHeartbeatWarnings" \notin sub.callbacks) =>
               /\ frame.event = "heartbeat-warnings" => handled = Warned
               /\ frame.event = "heartbeat-error" =>
                      CallbacksInvoked = <<"onHeartbeatError">>

====
